---- MODULE Spec2Model ----
(***************************************************************************)
(* Signal-processing pipeline of the light-sensor firmware.                *)
(*                                                                         *)
(* Two builds of the pipeline exist in the repository and both are         *)
(* modelled, selected by the variable `variant`:                           *)
(*   "deque" - src/src/signal/signal_processor.cpp (std::deque buffers,    *)
(*             polymorphic filter list); definitions prefixed D_           *)
(*   "fixed" - src/unnamed/part_007 (fixed arrays used as ring buffers);   *)
(*             definitions prefixed A_                                     *)
(*                                                                         *)
(* Numbers.  The code computes in single-precision floats.  The state of   *)
(* the model holds fixed-point numbers: a value v is the integer           *)
(* v * Scale.  The filters, the noise estimate and the trend regression    *)
(* compute in fixed point: sums and differences are exact, products,       *)
(* quotients and square roots are rounded down to a multiple of 1/Scale.   *)
(* The outlier and peak tests, whose results turn on a comparison of       *)
(* computed values, compute as the code does, in binary32 with rounding    *)
(* to nearest, ties to even (the F32 operators).                           *)
(***************************************************************************)
EXTENDS Integers, Sequences, FiniteSets, TLC

VARIABLES variant, proc, out, twin, twinOut, offByCall, ops, comp, script,
          pending, pm

vars ==
    <<variant, proc, out, twin, twinOut, offByCall, ops, comp, script, pending,
      pm>>

(***************************************************************************)
(* Fixed-point arithmetic                                                  *)
(***************************************************************************)
Scale == 1000

FromInt(n) == n * Scale

One == FromInt(1)

\* a * b, rounded down; the split keeps the intermediate products small
FMul(a, b) ==
    (a \div Scale) * b
        + (a % Scale) * (b \div Scale)
        + ((a % Scale) * (b % Scale)) \div Scale

\* a / b, rounded down
FDiv(a, b) ==
    LET n == IF b < 0 THEN 0 - a ELSE a
        d == IF b < 0 THEN 0 - b ELSE b
    IN  (n \div d) * Scale + ((n % d) * Scale) \div d

\* a / n for an integer count n (float divided by size_t)
FDivInt(a, n) == a \div n

FAbs(a) == IF a < 0 THEN 0 - a ELSE a

FMin(a, b) == IF b < a THEN b ELSE a

FMax(a, b) == IF a < b THEN b ELSE a

RECURSIVE SumSeq(_)
SumSeq(s) == IF s = <<>> THEN 0 ELSE Head(s) + SumSeq(Tail(s))

\* first n elements of an array
Prefix(s, n) == SubSeq(s, 1, n)

RECURSIVE InsertSorted(_, _)
InsertSorted(x, s) ==
    IF s = <<>> THEN <<x>>
    ELSE IF x <= Head(s) THEN <<x>> \o s
    ELSE <<Head(s)>> \o InsertSorted(x, Tail(s))

RECURSIVE Sorted(_)
\* ascending order of the values of s (std::sort, the bubble sort)
Sorted(s) == IF s = <<>> THEN <<>> ELSE InsertSorted(Head(s), Sorted(Tail(s)))

U8(n) == n % 256

(***************************************************************************)
(* Single-precision floats.  A float is [neg, m, e] with value             *)
(* (-1)^neg * m * 2^e, where m = 0 or 2^23 <= m < 2^24.  Every operation   *)
(* returns the float nearest to the exact result, ties to even.            *)
(* Infinities, NaN and subnormal numbers do not occur for the values the   *)
(* model feeds.                                                            *)
(***************************************************************************)
\* bits of the significand of a float
F32Precision == 24

F32Zero == [neg |-> FALSE, m |-> 0, e |-> 0]

RECURSIVE BitLen(_)
\* number of bits of the natural number n
BitLen(n) ==
    IF n >= 256 THEN 8 + BitLen(n \div 256)
    ELSE IF n >= 16 THEN 4 + BitLen(n \div 16)
    ELSE IF n >= 4 THEN 2 + BitLen(n \div 4)
    ELSE IF n >= 2 THEN 2
    ELSE n

\* a significand that rounding carried to 2^F32Precision is renormalised
F32Carry(neg, m, e) ==
    IF m = 2^F32Precision
    THEN [neg |-> neg, m |-> 2^(F32Precision - 1), e |-> e + 1]
    ELSE [neg |-> neg, m |-> m, e |-> e]

\* q + r / (2 * half), rounded to an integer, ties to even; sticky says
\* that bits below r were lost
F32Nearest(neg, q, r, half, e, sticky) ==
    F32Carry(neg,
             IF r > half \/ (r = half /\ (sticky \/ q % 2 = 1))
             THEN q + 1 ELSE q,
             e)

\* F32Round for a number M of L bits
F32RoundBits(neg, M, e, sticky, L) ==
    IF M = 0 THEN F32Zero
    ELSE IF L <= F32Precision
    THEN [neg |-> neg, m |-> M * 2^(F32Precision - L),
          e |-> e - (F32Precision - L)]
    ELSE F32Nearest(neg, M \div 2^(L - F32Precision),
                    M % 2^(L - F32Precision), 2^(L - F32Precision - 1),
                    e + (L - F32Precision), sticky)

\* the float nearest to M * 2^e (sticky = FALSE), or to a number strictly
\* between M * 2^e and (M + 1) * 2^e (sticky = TRUE; M then has more than
\* F32Precision bits)
F32Round(neg, M, e, sticky) == F32RoundBits(neg, M, e, sticky, BitLen(M))

F32Neg(a) == IF a.m = 0 THEN a ELSE [a EXCEPT !.neg = ~a.neg]

F32Abs(a) == [a EXCEPT !.neg = FALSE]

\* a + b: the smaller operand is aligned with three guard bits kept, the
\* bits shifted out are summarised in the sticky flag
F32Add(a, b) ==
    IF a.m = 0 THEN b
    ELSE IF b.m = 0 THEN a
    ELSE LET swap == b.e > a.e \/ (b.e = a.e /\ b.m > a.m)
             x    == IF swap THEN b ELSE a
             y    == IF swap THEN a ELSE b
             sh   == IF x.e - y.e > 27 THEN 27 ELSE x.e - y.e
             A    == x.m * 8
             B    == (y.m * 8) \div 2^sh
             st   == (y.m * 8) % 2^sh # 0
             S    == IF x.neg = y.neg THEN A + B
                     ELSE IF st THEN A - B - 1 ELSE A - B
         IN  F32Round(x.neg, S, x.e - 3, st)

F32Sub(a, b) == F32Add(a, F32Neg(b))

\* a * b: the 48-bit product of the significands, from 12-bit halves
F32Mul(a, b) ==
    IF a.m = 0 \/ b.m = 0 THEN F32Zero
    ELSE LET a1  == a.m \div 4096
             a0  == a.m % 4096
             b1  == b.m \div 4096
             b0  == b.m % 4096
             mid == a1 * b0 + a0 * b1
             t   == a0 * b0 + (mid % 4096) * 4096
             lo  == t % 2^24
             hi  == a1 * b1 + mid \div 4096 + t \div 2^24
         IN  F32Round(a.neg # b.neg, hi * 8 + lo \div 2^21,
                      a.e + b.e + 21, lo % 2^21 # 0)

\* a / b for b # 0: long division of the significands, 28 quotient bits
F32Div(a, b) ==
    IF a.m = 0 THEN F32Zero
    ELSE LET q0 == a.m \div b.m
             r0 == a.m % b.m
             q1 == (r0 * 128) \div b.m
             r1 == (r0 * 128) % b.m
             q2 == (r1 * 128) \div b.m
             r2 == (r1 * 128) % b.m
             q3 == (r2 * 128) \div b.m
             r3 == (r2 * 128) % b.m
             q4 == (r3 * 128) \div b.m
             r4 == (r3 * 128) % b.m
             Q  == (((q0 * 128 + q1) * 128 + q2) * 128 + q3) * 128 + q4
         IN  F32Round(a.neg # b.neg, Q, a.e - b.e - 28, r4 # 0)

RECURSIVE SqrtDigits(_, _, _, _, _)
\* digit-by-digit square root: the bit pairs of M from pair i down to pair
\* 0, then `zeros` pairs of zero bits; returns <<root, remainder>>
SqrtDigits(root, rem, M, i, zeros) ==
    IF i < 0 /\ zeros = 0 THEN <<root, rem>>
    ELSE LET pair  == IF i >= 0 THEN (M \div 4^i) % 4 ELSE 0
             r1    == rem * 4 + pair
             trial == root * 4 + 1
             i1    == IF i >= 0 THEN i - 1 ELSE i
             z1    == IF i >= 0 THEN zeros ELSE zeros - 1
         IN  IF r1 >= trial
             THEN SqrtDigits(root * 2 + 1, r1 - trial, M, i1, z1)
             ELSE SqrtDigits(root * 2, r1, M, i1, z1)

\* sqrt(a) for a >= 0
F32SqrtRound(d, e) == F32Round(FALSE, d[1], e, d[2] # 0)

F32Sqrt(a) ==
    IF a.m = 0 THEN F32Zero
    ELSE IF a.e % 2 = 1
    THEN F32SqrtRound(SqrtDigits(0, 0, a.m * 2, 12, 13), (a.e - 1) \div 2 - 13)
    ELSE F32SqrtRound(SqrtDigits(0, 0, a.m, 12, 13), a.e \div 2 - 13)

F32Positive(a) == a.m # 0 /\ ~a.neg

\* a > b
F32Gt(a, b) == F32Positive(F32Sub(a, b))

\* a < b
F32Lt(a, b) == F32Gt(b, a)

\* conversion of an unsigned integer (size_t) to float
F32FromNat(n) == F32Round(FALSE, n, 0, FALSE)

\* the float a fixed-point value of the model stands for: the float
\* nearest to v / Scale
F32FromFixed(v) ==
    [F32Div(F32FromNat(FAbs(v)), F32FromNat(Scale)) EXCEPT !.neg = v < 0]

\* floor(r * Scale / 2^k) for r < 2^k, without leaving 32 bits
F32Fraction(r, k) ==
    IF k <= 3 THEN (r * Scale) \div 2^k
    ELSE IF k - 3 >= 31 THEN 0
    ELSE (r * (Scale \div 8)) \div 2^(k - 3)

\* the fixed-point value that stands for the float a: a * Scale with the
\* fraction dropped
F32ToFixed(a) ==
    IF a.m = 0 THEN 0
    ELSE IF a.e >= 0
    THEN (IF a.neg THEN -1 ELSE 1) * a.m * 2^a.e * Scale
    ELSE IF 0 - a.e > F32Precision
    THEN (IF a.neg THEN -1 ELSE 1) * F32Fraction(a.m, 0 - a.e)
    ELSE (IF a.neg THEN -1 ELSE 1)
             * ((a.m \div 2^(0 - a.e)) * Scale
                + F32Fraction(a.m % 2^(0 - a.e), 0 - a.e))

RECURSIVE F32Accumulate(_, _)
\* the values of s added to acc from left to right
F32Accumulate(s, acc) ==
    IF s = <<>> THEN acc
    ELSE F32Accumulate(Tail(s), F32Add(acc, F32FromFixed(Head(s))))

(***************************************************************************)
(* Capacities of the fixed-array build.  Its header is not among the       *)
(* sources; the values follow the design document.                         *)
(***************************************************************************)
MAX_FILTER_WINDOW == 16

MAX_RECENT_VALUES == 20

ZeroArray(n) == [i \in 1..n |-> 0]

(***************************************************************************)
(* MovingAverageFilter                                                     *)
(***************************************************************************)
D_MovingAverageFilter(window_size) ==
    [type |-> "MOVING_AVERAGE", window_size_ |-> window_size,
     buffer_ |-> <<>>, sum_ |-> 0]

\* the running sum is not reduced by the value that leaves the window
D_MovingAverageFilter_process_keepSum(f, input) ==
    LET b1   == Append(f.buffer_, input)
        s1   == f.sum_ + input
        over == Len(b1) > f.window_size_
        b2   == IF over THEN Tail(b1) ELSE b1
    IN  [f   |-> [f EXCEPT !.buffer_ = b2, !.sum_ = s1],
         out |-> FDivInt(s1, Len(b2))]

D_MovingAverageFilter_process(f, input) ==
    LET b1   == Append(f.buffer_, input)
        s1   == f.sum_ + input
        over == Len(b1) > f.window_size_
        b2   == IF over THEN Tail(b1) ELSE b1
        s2   == IF over THEN s1 - Head(b1) ELSE s1
    IN  [f   |-> [f EXCEPT !.buffer_ = b2, !.sum_ = s2],
         out |-> FDivInt(s2, Len(b2))]

D_MovingAverageFilter_reset(f) == [f EXCEPT !.buffer_ = <<>>, !.sum_ = 0]

A_MovingAverageFilter(window_size) ==
    [type |-> "MOVING_AVERAGE",
     window_size_ |-> IF window_size < MAX_FILTER_WINDOW THEN window_size
                      ELSE MAX_FILTER_WINDOW,
     buffer_ |-> ZeroArray(MAX_FILTER_WINDOW),
     buffer_index_ |-> 0, buffer_count_ |-> 0, sum_ |-> 0]

A_MovingAverageFilter_process(f, input) ==
    LET s0 == IF f.buffer_count_ >= f.window_size_
              THEN f.sum_ - f.buffer_[f.buffer_index_ + 1] ELSE f.sum_
        b1 == [f.buffer_ EXCEPT ![f.buffer_index_ + 1] = input]
        s1 == s0 + input
        i1 == (f.buffer_index_ + 1) % f.window_size_
        c1 == IF f.buffer_count_ < f.window_size_ THEN f.buffer_count_ + 1
              ELSE f.buffer_count_
    IN  [f   |-> [f EXCEPT !.buffer_ = b1, !.sum_ = s1,
                           !.buffer_index_ = i1, !.buffer_count_ = c1],
         out |-> FDivInt(s1, c1)]

A_MovingAverageFilter_reset(f) ==
    [f EXCEPT !.buffer_ = ZeroArray(MAX_FILTER_WINDOW),
              !.buffer_index_ = 0, !.buffer_count_ = 0, !.sum_ = 0]

(***************************************************************************)
(* LowPassFilter                                                           *)
(***************************************************************************)
M_PI == 3141

\* alpha = dt / (rc + dt), rc = 1 / (2 pi cutoff), dt = 1 / sample_rate
LowPassAlpha(cutoff_freq, sample_rate) ==
    LET rc == FDiv(One, FMul(FMul(FromInt(2), M_PI), cutoff_freq))
        dt == FDiv(One, sample_rate)
    IN  FDiv(dt, rc + dt)

D_LowPassFilter(cutoff_freq, sample_rate) ==
    [type |-> "LOW_PASS", cutoff_freq_ |-> cutoff_freq,
     sample_rate_ |-> sample_rate,
     alpha_ |-> LowPassAlpha(cutoff_freq, sample_rate), prev_output_ |-> 0]

A_LowPassFilter(cutoff_freq, sample_rate) ==
    [type |-> "LOW_PASS",
     alpha_ |-> LowPassAlpha(cutoff_freq, sample_rate), prev_output_ |-> 0]

LowPassFilter_process(f, input) ==
    LET y == FMul(f.alpha_, input) + FMul(One - f.alpha_, f.prev_output_)
    IN  [f |-> [f EXCEPT !.prev_output_ = y], out |-> y]

LowPassFilter_reset(f) == [f EXCEPT !.prev_output_ = 0]

(***************************************************************************)
(* MedianFilter                                                            *)
(***************************************************************************)
\* median of a sorted, non-empty sequence
MiddleOf(s) ==
    LET size == Len(s)
    IN  IF size % 2 = 0
        THEN FDivInt(s[size \div 2] + s[size \div 2 + 1], 2)
        ELSE s[size \div 2 + 1]

D_MedianFilter(window_size) ==
    [type |-> "MEDIAN", window_size_ |-> window_size,
     buffer_ |-> <<>>, sorted_buffer_ |-> <<>>]

\* the middle of the window is taken without sorting it
D_MedianFilter_process_unsorted(f, input) ==
    LET b1 == Append(f.buffer_, input)
        b2 == IF Len(b1) > f.window_size_ THEN Tail(b1) ELSE b1
    IN  IF Len(b2) < 3
        THEN [f |-> [f EXCEPT !.buffer_ = b2], out |-> input]
        ELSE [f   |-> [f EXCEPT !.buffer_ = b2, !.sorted_buffer_ = b2],
              out |-> MiddleOf(b2)]

\* once three inputs are buffered the oldest of the window is returned
D_MedianFilter_process_oldest(f, input) ==
    LET b1 == Append(f.buffer_, input)
        b2 == IF Len(b1) > f.window_size_ THEN Tail(b1) ELSE b1
    IN  IF Len(b2) < 3
        THEN [f |-> [f EXCEPT !.buffer_ = b2], out |-> input]
        ELSE [f   |-> [f EXCEPT !.buffer_ = b2, !.sorted_buffer_ = Sorted(b2)],
              out |-> b2[1]]

D_MedianFilter_process(f, input) ==
    LET b1 == Append(f.buffer_, input)
        b2 == IF Len(b1) > f.window_size_ THEN Tail(b1) ELSE b1
    IN  IF Len(b2) < 3
        THEN [f |-> [f EXCEPT !.buffer_ = b2], out |-> input]
        ELSE [f   |-> [f EXCEPT !.buffer_ = b2, !.sorted_buffer_ = Sorted(b2)],
              out |-> MiddleOf(Sorted(b2))]

D_MedianFilter_reset(f) == [f EXCEPT !.buffer_ = <<>>, !.sorted_buffer_ = <<>>]

A_MedianFilter(window_size) ==
    [type |-> "MEDIAN",
     window_size_ |-> IF window_size < MAX_FILTER_WINDOW THEN window_size
                      ELSE MAX_FILTER_WINDOW,
     buffer_ |-> ZeroArray(MAX_FILTER_WINDOW),
     sorted_buffer_ |-> ZeroArray(MAX_FILTER_WINDOW),
     buffer_index_ |-> 0, buffer_count_ |-> 0]

A_MedianFilter_process(f, input) ==
    LET b1 == [f.buffer_ EXCEPT ![f.buffer_index_ + 1] = input]
        i1 == (f.buffer_index_ + 1) % f.window_size_
        c1 == IF f.buffer_count_ < f.window_size_ THEN f.buffer_count_ + 1
              ELSE f.buffer_count_
        f1 == [f EXCEPT !.buffer_ = b1, !.buffer_index_ = i1,
                        !.buffer_count_ = c1]
        srt == Sorted(Prefix(b1, c1))
    IN  IF c1 < 3
        THEN [f |-> f1, out |-> input]
        ELSE [f   |-> [f1 EXCEPT !.sorted_buffer_ =
                          [i \in 1..MAX_FILTER_WINDOW |->
                              IF i <= c1 THEN srt[i] ELSE f.sorted_buffer_[i]]],
              out |-> MiddleOf(srt)]

A_MedianFilter_reset(f) ==
    [f EXCEPT !.buffer_ = ZeroArray(MAX_FILTER_WINDOW),
              !.sorted_buffer_ = ZeroArray(MAX_FILTER_WINDOW),
              !.buffer_index_ = 0, !.buffer_count_ = 0]

(***************************************************************************)
(* AdaptiveFilter (the same code in both builds)                           *)
(***************************************************************************)
CoefficientStep == 100

CoefficientMax == 900

CoefficientMin == 100

CoefficientInitial == 500

AdaptiveFilter(adaptation_rate, noise_floor) ==
    [type |-> "ADAPTIVE", adaptation_rate_ |-> adaptation_rate,
     noise_floor_ |-> noise_floor, filter_coefficient_ |-> CoefficientInitial,
     prev_output_ |-> 0, error_variance_ |-> 0]

AdaptiveFilter_process(f, input) ==
    LET error == input - f.prev_output_
        ev    == FMul(One - f.adaptation_rate_, f.error_variance_)
                 + FMul(FMul(f.adaptation_rate_, error), error)
        step  == FMul(f.adaptation_rate_, CoefficientStep)
        coef  == IF ev > f.noise_floor_
                 THEN FMin(CoefficientMax, f.filter_coefficient_ + step)
                 ELSE FMax(CoefficientMin, f.filter_coefficient_ - step)
        y     == FMul(coef, input) + FMul(One - coef, f.prev_output_)
    IN  [f   |-> [f EXCEPT !.error_variance_ = ev, !.filter_coefficient_ = coef,
                           !.prev_output_ = y],
         out |-> y]

AdaptiveFilter_reset(f) ==
    [f EXCEPT !.filter_coefficient_ = CoefficientInitial, !.prev_output_ = 0,
              !.error_variance_ = 0]

AdaptiveFilter_updateParameters(f, adaptation_rate, noise_floor) ==
    [f EXCEPT !.adaptation_rate_ = adaptation_rate,
              !.noise_floor_ = noise_floor]

(***************************************************************************)
(* Statistics over the recent-value window                                 *)
(***************************************************************************)
calculateMean(values) ==
    IF values = <<>> THEN F32Zero
    ELSE F32Div(F32Accumulate(values, F32Zero), F32FromNat(Len(values)))

F32Square(a) == F32Mul(a, a)

RECURSIVE SumSquaredDiff(_, _, _)
SumSquaredDiff(s, mean, acc) ==
    IF s = <<>> THEN acc
    ELSE SumSquaredDiff(Tail(s), mean,
                        F32Add(acc,
                               F32Square(F32Sub(F32FromFixed(Head(s)), mean))))

\* the square root is left out: the variance is returned
calculateStdDev_variance(values, mean) ==
    IF Len(values) < 2 THEN F32Zero
    ELSE F32Div(SumSquaredDiff(values, mean, F32Zero),
                F32FromNat(Len(values) - 1))

calculateStdDev(values, mean) ==
    IF Len(values) < 2 THEN F32Zero
    ELSE F32Sqrt(F32Div(SumSquaredDiff(values, mean, F32Zero),
                        F32FromNat(Len(values) - 1)))

(***************************************************************************)
(* OutlierDetector and PeakDetector (deque build: separate objects)        *)
(***************************************************************************)
OutlierDetector(threshold) == [threshold_ |-> threshold]

\* |value - mean| / std_dev
z_score(value, mean, std_dev) ==
    F32Div(F32Abs(F32Sub(F32FromFixed(value), mean)), std_dev)

\* isOutlier from the zero-deviation guard on
OutlierDetector_compare(d, value, mean, std_dev) ==
    IF std_dev = F32Zero THEN FALSE
    ELSE F32Gt(z_score(value, mean, std_dev), F32FromFixed(d.threshold_))

\* isOutlier from the computation of std_dev on
OutlierDetector_deviate(d, value, recent_values, mean) ==
    OutlierDetector_compare(d, value, mean,
                            calculateStdDev(recent_values, mean))

OutlierDetector_isOutlier(d, value, recent_values) ==
    IF Len(recent_values) < 3 THEN FALSE
    ELSE OutlierDetector_deviate(d, value, recent_values,
                                 calculateMean(recent_values))

PeakDetector(threshold) ==
    [threshold_ |-> threshold, prev_value_ |-> 0, rising_ |-> FALSE]

\* any sample that does not rise is a candidate, rising before it or not
PeakDetector_isPeak_anyFall(d, value, recent_values) ==
    IF Len(recent_values) < 3 THEN [d |-> d, out |-> FALSE]
    ELSE LET current_rising == value > d.prev_value_
             change    == F32Abs(F32Sub(F32FromFixed(value),
                                        F32FromFixed(d.prev_value_)))
             avg_value == F32Div(F32Accumulate(recent_values, F32Zero),
                                 F32FromNat(Len(recent_values)))
             is_peak   == IF ~current_rising
                          THEN F32Gt(change,
                                     F32Mul(avg_value,
                                            F32FromFixed(d.threshold_)))
                          ELSE FALSE
         IN  [d   |-> [d EXCEPT !.rising_ = current_rising,
                                !.prev_value_ = value],
              out |-> is_peak]

PeakDetector_isPeak(d, value, recent_values) ==
    IF Len(recent_values) < 3 THEN [d |-> d, out |-> FALSE]
    ELSE LET current_rising == value > d.prev_value_
             candidate == d.rising_ /\ ~current_rising
             change    == F32Abs(F32Sub(F32FromFixed(value),
                                        F32FromFixed(d.prev_value_)))
             avg_value == F32Div(F32Accumulate(recent_values, F32Zero),
                                 F32FromNat(Len(recent_values)))
             is_peak   == IF candidate
                          THEN F32Gt(change,
                                     F32Mul(avg_value,
                                            F32FromFixed(d.threshold_)))
                          ELSE FALSE
         IN  [d   |-> [d EXCEPT !.rising_ = current_rising,
                                !.prev_value_ = value],
              out |-> is_peak]

(***************************************************************************)
(* TrendAnalyzer                                                           *)
(***************************************************************************)
\* slope and confidence are the fixed-point values of the floats returned;
\* confidence_float is the returned confidence itself
NoTrend ==
    [slope |-> 0, confidence |-> 0, is_increasing |-> FALSE,
     is_decreasing |-> FALSE, confidence_float |-> F32Zero]

ConfidenceGate == 500

TrendEpsilon == 1

D_TrendAnalyzer(window_size) ==
    [window_size_ |-> window_size, buffer_ |-> <<>>]

\* one pass of the regression loop: the three sums with one term added
RegressionTerm(sums, x_diff, y_diff) ==
    [numerator     |-> F32Add(sums.numerator, F32Mul(x_diff, y_diff)),
     x_denominator |-> F32Add(sums.x_denominator, F32Square(x_diff)),
     y_denominator |-> F32Add(sums.y_denominator, F32Square(y_diff))]

NoSums ==
    [numerator |-> F32Zero, x_denominator |-> F32Zero,
     y_denominator |-> F32Zero]

RECURSIVE RegressionSums(_, _, _, _, _)
\* the regression loop over the remaining x and y values
RegressionSums(x_values, y_values, x_mean, y_mean, sums) ==
    IF x_values = <<>> THEN sums
    ELSE RegressionSums(
             Tail(x_values), Tail(y_values), x_mean, y_mean,
             RegressionTerm(sums,
                            F32Sub(F32FromFixed(Head(x_values)), x_mean),
                            F32Sub(F32FromFixed(Head(y_values)), y_mean)))

\* slope and correlation from the three sums
D_regressionResult(sums) ==
    [slope |-> IF sums.x_denominator = F32Zero THEN F32Zero
               ELSE F32Div(sums.numerator, sums.x_denominator),
     correlation |->
         IF sums.x_denominator = F32Zero \/ sums.y_denominator = F32Zero
         THEN F32Zero
         ELSE F32Div(sums.numerator,
                     F32Sqrt(F32Mul(sums.x_denominator,
                                    sums.y_denominator)))]

\* slope and correlation of y over x
linearRegression(x_values, y_values) ==
    IF Len(x_values) # Len(y_values) \/ Len(x_values) < 2
    THEN [slope |-> F32Zero, correlation |-> F32Zero]
    ELSE D_regressionResult(
             RegressionSums(x_values, y_values, calculateMean(x_values),
                            calculateMean(y_values), NoSums))

\* the TrendResult built from the regression
D_TrendResult(reg) ==
    [slope |-> F32ToFixed(reg.slope),
     confidence |-> F32ToFixed(F32Abs(reg.correlation)),
     is_increasing |-> F32Positive(reg.slope),
     is_decreasing |-> F32Positive(F32Neg(reg.slope)),
     confidence_float |-> F32Abs(reg.correlation)]

D_TrendAnalyzer_analyzeTrend(t, value) ==
    LET b1 == Append(t.buffer_, value)
        b2 == IF Len(b1) > t.window_size_ THEN Tail(b1) ELSE b1
        t1 == [t EXCEPT !.buffer_ = b2]
        x_values == [i \in 1..Len(b2) |-> FromInt(i - 1)]
    IN  IF Len(b2) < 3 THEN [t |-> t1, out |-> NoTrend]
        ELSE [t   |-> t1,
              out |-> D_TrendResult(linearRegression(x_values, b2))]

D_TrendAnalyzer_setWindowSize(t, window_size) ==
    [t EXCEPT !.window_size_ = window_size, !.buffer_ = <<>>]

A_TrendAnalyzer(window_size) ==
    [window_size_ |-> IF window_size < MAX_FILTER_WINDOW THEN window_size
                      ELSE MAX_FILTER_WINDOW,
     buffer_ |-> ZeroArray(MAX_FILTER_WINDOW),
     buffer_index_ |-> 0, buffer_count_ |-> 0]

\* slope and confidence from the three sums, behind the guards
A_regressionResult(sums) ==
    [slope |->
         IF F32Gt(sums.x_denominator, F32FromFixed(TrendEpsilon))
         THEN F32Div(sums.numerator, sums.x_denominator) ELSE F32Zero,
     confidence |->
         IF /\ F32Gt(sums.x_denominator, F32FromFixed(TrendEpsilon))
            /\ F32Gt(sums.y_denominator, F32FromFixed(TrendEpsilon))
         THEN F32Abs(F32Div(sums.numerator,
                            F32Sqrt(F32Mul(sums.x_denominator,
                                           sums.y_denominator))))
         ELSE F32Zero]

\* the TrendResult built from slope and confidence
A_TrendResult(reg) ==
    [slope |-> F32ToFixed(reg.slope),
     confidence |-> F32ToFixed(reg.confidence),
     is_increasing |->
         /\ F32Positive(reg.slope)
         /\ F32Gt(reg.confidence, F32FromFixed(ConfidenceGate)),
     is_decreasing |->
         /\ F32Positive(F32Neg(reg.slope))
         /\ F32Gt(reg.confidence, F32FromFixed(ConfidenceGate)),
     confidence_float |-> reg.confidence]

\* analyzeTrend from the means on: y is read from buffer_index_ onwards,
\* modulo the window, the mean is taken over the first buffer_count_ slots
A_regression(t) ==
    A_regressionResult(
        RegressionSums(
            [k \in 1..t.buffer_count_ |-> FromInt(k - 1)],
            [k \in 1..t.buffer_count_ |->
                t.buffer_[((t.buffer_index_ + k - 1) % t.window_size_) + 1]],
            F32Div(F32FromNat(t.buffer_count_ - 1), F32FromNat(2)),
            F32Div(F32Accumulate(Prefix(t.buffer_, t.buffer_count_), F32Zero),
                   F32FromNat(t.buffer_count_)),
            NoSums))

A_TrendAnalyzer_analyzeTrend(t, value) ==
    LET b1 == [t.buffer_ EXCEPT ![t.buffer_index_ + 1] = value]
        i1 == (t.buffer_index_ + 1) % t.window_size_
        c1 == IF t.buffer_count_ < t.window_size_ THEN t.buffer_count_ + 1
              ELSE t.buffer_count_
        t1 == [t EXCEPT !.buffer_ = b1, !.buffer_index_ = i1,
                        !.buffer_count_ = c1]
    IN  IF c1 < 3 THEN [t |-> t1, out |-> NoTrend]
        ELSE [t |-> t1, out |-> A_TrendResult(A_regression(t1))]

A_TrendAnalyzer_reset(t) ==
    [t EXCEPT !.buffer_ = ZeroArray(MAX_FILTER_WINDOW),
              !.buffer_index_ = 0, !.buffer_count_ = 0]

A_TrendAnalyzer_setWindowSize(t, window_size) ==
    A_TrendAnalyzer_reset(
        [t EXCEPT !.window_size_ =
            IF window_size < MAX_FILTER_WINDOW THEN window_size
            ELSE MAX_FILTER_WINDOW])

(***************************************************************************)
(* SignalProcessor, shared parts                                           *)
(***************************************************************************)
NoiseAlpha == 100

SnrFloor == 1

InitialQuality == 50

updateNoiseEstimate(noise_level_estimate, filtered_value, raw_value) ==
    LET noise == FAbs(raw_value - filtered_value)
    IN  FMul(One - NoiseAlpha, noise_level_estimate) + FMul(NoiseAlpha, noise)

\* the three deductions of calculateSignalQuality, in the order applied
Deductions(analysis) ==
    <<IF analysis.signal_to_noise_ratio < FromInt(1) THEN 30
      ELSE IF analysis.signal_to_noise_ratio < FromInt(2) THEN 15 ELSE 0,
      IF analysis.is_outlier THEN 20 ELSE 0,
      IF analysis.trend_confidence < ConfidenceGate THEN 10 ELSE 0>>

\* the deductions added instead of subtracted and the final clamp left out
D_calculateSignalQuality_unclamped(analysis) ==
    LET d == Deductions(analysis)
    IN  U8(U8(U8(100 + d[1]) + d[2]) + d[3])

\* the signal-to-noise statement of processReading, deque build
D_signalToNoiseRatio(filtered_value, noise) ==
    IF filtered_value > 0 THEN FDiv(filtered_value, FMax(noise, SnrFloor))
    ELSE 0

\* the same of the fixed-array build, which compares with 0.001
A_signalToNoiseRatio(filtered_value, noise) ==
    IF filtered_value > SnrFloor
    THEN FDiv(filtered_value, FMax(noise, SnrFloor))
    ELSE 0

\* the deduction for a ratio below 2 is made as well as the one for a
\* ratio below 1
D_calculateSignalQuality_bothSteps(analysis) ==
    LET d       == Deductions(analysis)
        quality == U8(U8(U8(100 - d[1] - (IF d[1] = 30 THEN 15 ELSE 0))
                         - d[2]) - d[3])
    IN  U8(FMax(0, FMin(100, quality)))

\* the deduction for a low trend confidence left out
D_calculateSignalQuality_noTrend(analysis) ==
    LET d       == Deductions(analysis)
        quality == U8(U8(100 - d[1]) - d[2])
    IN  U8(FMax(0, FMin(100, quality)))

\* deque build: the running value is a uint8_t
D_calculateSignalQuality(analysis) ==
    LET d       == Deductions(analysis)
        quality == U8(U8(U8(100 - d[1]) - d[2]) - d[3])
    IN  U8(FMax(0, FMin(100, quality)))

\* fixed-array build: the running value is an int, cast at the end
A_calculateSignalQuality(analysis) ==
    LET d       == Deductions(analysis)
        quality == 100 - d[1] - d[2] - d[3]
    IN  U8(FMax(0, FMin(100, quality)))

(***************************************************************************)
(* SignalProcessor, deque build                                            *)
(***************************************************************************)
\* the low-pass filter is put before the moving average
D_initializeFilters_lowPassFirst(p) ==
    LET c == p.config_
    IN  [p EXCEPT !.filters_ =
            (IF c.low_pass_cutoff > 0
             THEN <<D_LowPassFilter(c.low_pass_cutoff, One)>> ELSE <<>>)
         \o (IF c.moving_average_window > 1
             THEN <<D_MovingAverageFilter(c.moving_average_window)>> ELSE <<>>)
         \o (IF c.enable_median_filter /\ c.median_window > 1
             THEN <<D_MedianFilter(c.median_window)>> ELSE <<>>)
         \o (IF c.enable_adaptive_filter
             THEN <<AdaptiveFilter(c.adaptation_rate, c.noise_floor)>>
             ELSE <<>>)]

D_initializeFilters(p) ==
    LET c == p.config_
    IN  [p EXCEPT !.filters_ =
            (IF c.moving_average_window > 1
             THEN <<D_MovingAverageFilter(c.moving_average_window)>> ELSE <<>>)
         \o (IF c.enable_median_filter /\ c.median_window > 1
             THEN <<D_MedianFilter(c.median_window)>> ELSE <<>>)
         \o (IF c.low_pass_cutoff > 0
             THEN <<D_LowPassFilter(c.low_pass_cutoff, One)>> ELSE <<>>)
         \o (IF c.enable_adaptive_filter
             THEN <<AdaptiveFilter(c.adaptation_rate, c.noise_floor)>>
             ELSE <<>>)]

D_SignalProcessor(config) ==
    D_initializeFilters(
        [config_ |-> config, filters_ |-> <<>>,
         outlier_detector_ |-> OutlierDetector(config.outlier_threshold),
         peak_detector_ |-> PeakDetector(config.peak_threshold),
         trend_analyzer_ |-> D_TrendAnalyzer(config.trend_window),
         recent_values_ |-> <<>>, noise_level_estimate_ |-> 0,
         signal_quality_ |-> InitialQuality])

\* virtual dispatch of IDigitalFilter::process
D_Filter_process(f, input) ==
    CASE f.type = "MOVING_AVERAGE" -> D_MovingAverageFilter_process(f, input)
      [] f.type = "MEDIAN"         -> D_MedianFilter_process(f, input)
      [] f.type = "LOW_PASS"       -> LowPassFilter_process(f, input)
      [] f.type = "ADAPTIVE"       -> AdaptiveFilter_process(f, input)

\* virtual dispatch of IDigitalFilter::reset
D_Filter_reset(f) ==
    CASE f.type = "MOVING_AVERAGE" -> D_MovingAverageFilter_reset(f)
      [] f.type = "MEDIAN"         -> D_MedianFilter_reset(f)
      [] f.type = "LOW_PASS"       -> LowPassFilter_reset(f)
      [] f.type = "ADAPTIVE"       -> AdaptiveFilter_reset(f)

RECURSIVE D_applyChain(_, _)
\* the loop of applyFilters over filters_; `applied` lists the filters run
D_applyChain(filters, value) ==
    IF filters = <<>> THEN [filters |-> <<>>, out |-> value, applied |-> {}]
    ELSE LET r    == D_Filter_process(Head(filters), value)
             rest == D_applyChain(Tail(filters), r.out)
         IN  [filters |-> <<r.f>> \o rest.filters, out |-> rest.out,
              applied |-> {Head(filters).type} \cup rest.applied]

D_applyFilters(p, input) ==
    LET r == D_applyChain(p.filters_, input)
    IN  [p |-> [p EXCEPT !.filters_ = r.filters], out |-> r.out,
         applied |-> r.applied]

\* push_back on recent_values_, pop_front above twenty values
D_pushRecent(recent_values, value) ==
    LET r1 == Append(recent_values, value)
    IN  IF Len(r1) > 20 THEN Tail(r1) ELSE r1

\* processReading from the noise estimate on: the filter result fl and
\* the three detector results are at hand
D_processReading_assemble(recent, value, fl, estimate, is_outlier, pk, tr) ==
    LET noise == updateNoiseEstimate(estimate, fl.out, value)
        partial ==
            [filtered_value |-> fl.out, noise_level |-> noise,
             signal_to_noise_ratio |-> D_signalToNoiseRatio(fl.out, noise),
             is_outlier |-> is_outlier, is_peak |-> pk.out,
             trend_slope |-> tr.out.slope,
             trend_confidence |-> tr.out.confidence]
        quality == D_calculateSignalQuality(partial)
    IN  [p |-> [fl.p EXCEPT !.recent_values_ = recent,
                            !.noise_level_estimate_ = noise,
                            !.peak_detector_ = pk.d,
                            !.trend_analyzer_ = tr.t,
                            !.signal_quality_ = quality],
         analysis |-> [filtered_value |-> partial.filtered_value,
                       noise_level |-> partial.noise_level,
                       signal_to_noise_ratio |-> partial.signal_to_noise_ratio,
                       is_outlier |-> partial.is_outlier,
                       is_peak |-> partial.is_peak,
                       trend_slope |-> partial.trend_slope,
                       trend_confidence |-> partial.trend_confidence,
                       quality_score |-> quality],
         applied |-> fl.applied]

\* the trend analyzer is handed the filtered value
D_processReading_filteredTrend(p, reading) ==
    D_processReading_assemble(
        D_pushRecent(p.recent_values_, reading.lux_value),
        reading.lux_value,
        D_applyFilters(p, reading.lux_value),
        p.noise_level_estimate_,
        IF p.config_.enable_outlier_removal
        THEN OutlierDetector_isOutlier(
                 p.outlier_detector_, reading.lux_value,
                 D_pushRecent(p.recent_values_, reading.lux_value))
        ELSE FALSE,
        IF p.config_.enable_peak_detection
        THEN PeakDetector_isPeak(
                 p.peak_detector_, reading.lux_value,
                 D_pushRecent(p.recent_values_, reading.lux_value))
        ELSE [d |-> p.peak_detector_, out |-> FALSE],
        IF p.config_.enable_trend_detection
        THEN D_TrendAnalyzer_analyzeTrend(
                 p.trend_analyzer_, D_applyFilters(p, reading.lux_value).out)
        ELSE [t |-> p.trend_analyzer_, out |-> NoTrend])

D_processReading(p, reading) ==
    D_processReading_assemble(
        D_pushRecent(p.recent_values_, reading.lux_value),
        reading.lux_value,
        D_applyFilters(p, reading.lux_value),
        p.noise_level_estimate_,
        IF p.config_.enable_outlier_removal
        THEN OutlierDetector_isOutlier(
                 p.outlier_detector_, reading.lux_value,
                 D_pushRecent(p.recent_values_, reading.lux_value))
        ELSE FALSE,
        IF p.config_.enable_peak_detection
        THEN PeakDetector_isPeak(
                 p.peak_detector_, reading.lux_value,
                 D_pushRecent(p.recent_values_, reading.lux_value))
        ELSE [d |-> p.peak_detector_, out |-> FALSE],
        IF p.config_.enable_trend_detection
        THEN D_TrendAnalyzer_analyzeTrend(p.trend_analyzer_, reading.lux_value)
        ELSE [t |-> p.trend_analyzer_, out |-> NoTrend])

D_reset(p) ==
    [p EXCEPT !.filters_ = [i \in 1..Len(p.filters_) |->
                               D_Filter_reset(p.filters_[i])],
              !.recent_values_ = <<>>,
              !.noise_level_estimate_ = 0,
              !.signal_quality_ = InitialQuality]

D_configure(p, config) ==
    LET p1 == [p EXCEPT
                 !.config_ = config,
                 !.outlier_detector_.threshold_ = config.outlier_threshold,
                 !.peak_detector_.threshold_ = config.peak_threshold,
                 !.trend_analyzer_ =
                     D_TrendAnalyzer_setWindowSize(p.trend_analyzer_,
                                                   config.trend_window)]
    IN  D_initializeFilters(D_reset(p1))

\* the body is empty: the call changes nothing
D_setFilterEnabled(p, filter_type, enable) == p

(***************************************************************************)
(* SignalProcessor, fixed-array build                                      *)
(***************************************************************************)
DefaultCutoff == 500

StdDevEpsilon == 1

A_SignalProcessor(config) ==
    [config_ |-> config,
     ma_filter_ |-> A_MovingAverageFilter(config.moving_average_window),
     lp_filter_ |-> A_LowPassFilter(IF config.low_pass_cutoff > 0
                                    THEN config.low_pass_cutoff
                                    ELSE DefaultCutoff, One),
     median_filter_ |-> A_MedianFilter(config.median_window),
     adaptive_filter_ |-> AdaptiveFilter(config.adaptation_rate,
                                         config.noise_floor),
     trend_analyzer_ |-> A_TrendAnalyzer(config.trend_window),
     ma_enabled_ |-> config.moving_average_window > 1,
     lp_enabled_ |-> config.low_pass_cutoff > 0,
     median_enabled_ |-> config.enable_median_filter,
     adaptive_enabled_ |-> config.enable_adaptive_filter,
     recent_values_ |-> ZeroArray(MAX_RECENT_VALUES),
     recent_index_ |-> 0, recent_count_ |-> 0,
     noise_level_estimate_ |-> 0, signal_quality_ |-> InitialQuality,
     prev_value_ |-> 0, rising_ |-> FALSE]

A_applyFilters(p, input) ==
    LET ma == IF p.ma_enabled_
              THEN A_MovingAverageFilter_process(p.ma_filter_, input)
              ELSE [f |-> p.ma_filter_, out |-> input]
        md == IF p.median_enabled_
              THEN A_MedianFilter_process(p.median_filter_, ma.out)
              ELSE [f |-> p.median_filter_, out |-> ma.out]
        lp == IF p.lp_enabled_
              THEN LowPassFilter_process(p.lp_filter_, md.out)
              ELSE [f |-> p.lp_filter_, out |-> md.out]
        ad == IF p.adaptive_enabled_
              THEN AdaptiveFilter_process(p.adaptive_filter_, lp.out)
              ELSE [f |-> p.adaptive_filter_, out |-> lp.out]
    IN  [p |-> [p EXCEPT !.ma_filter_ = ma.f, !.median_filter_ = md.f,
                         !.lp_filter_ = lp.f, !.adaptive_filter_ = ad.f],
         out |-> ad.out,
         applied |-> (IF p.ma_enabled_ THEN {"MOVING_AVERAGE"} ELSE {})
                \cup (IF p.median_enabled_ THEN {"MEDIAN"} ELSE {})
                \cup (IF p.lp_enabled_ THEN {"LOW_PASS"} ELSE {})
                \cup (IF p.adaptive_enabled_ THEN {"ADAPTIVE"} ELSE {})]

\* calculateMean() of the fixed-array build: the first recent_count_ slots
A_calculateMean(p) ==
    IF p.recent_count_ = 0 THEN F32Zero
    ELSE F32Div(F32Accumulate(Prefix(p.recent_values_, p.recent_count_),
                              F32Zero),
                F32FromNat(p.recent_count_))

A_calculateStdDev(p, mean) ==
    calculateStdDev(Prefix(p.recent_values_, p.recent_count_), mean)

\* isOutlier from the small-deviation guard on
A_isOutlier_compare(p, value, mean, std_dev) ==
    IF F32Lt(std_dev, F32FromFixed(StdDevEpsilon)) THEN FALSE
    ELSE F32Gt(z_score(value, mean, std_dev),
               F32FromFixed(p.config_.outlier_threshold))

\* isOutlier from the computation of std_dev on
A_isOutlier_deviate(p, value, mean) ==
    A_isOutlier_compare(p, value, mean, A_calculateStdDev(p, mean))

A_isOutlier(p, value) ==
    IF p.recent_count_ < 3 THEN FALSE
    ELSE A_isOutlier_deviate(p, value, A_calculateMean(p))

A_isPeak(p, value) ==
    LET current_rising == value > p.prev_value_
        candidate == p.rising_ /\ ~current_rising
        is_peak == IF candidate /\ p.recent_count_ > 0
                   THEN F32Gt(F32Abs(F32Sub(F32FromFixed(value),
                                            F32FromFixed(p.prev_value_))),
                              F32Mul(A_calculateMean(p),
                                     F32FromFixed(p.config_.peak_threshold)))
                   ELSE candidate
    IN  [p   |-> [p EXCEPT !.rising_ = current_rising, !.prev_value_ = value],
         out |-> is_peak]

\* the reading stored in the ring of recent values
A_pushRecent(p, value) ==
    [p EXCEPT !.recent_values_[p.recent_index_ + 1] = value,
              !.recent_index_ = (p.recent_index_ + 1) % MAX_RECENT_VALUES,
              !.recent_count_ = IF p.recent_count_ < MAX_RECENT_VALUES
                                THEN p.recent_count_ + 1
                                ELSE p.recent_count_]

\* processReading from the trend analysis on
A_processReading_assemble(value, fl, noise, is_outlier, pk, tr) ==
    LET partial ==
            [filtered_value |-> fl.out, noise_level |-> noise,
             signal_to_noise_ratio |-> A_signalToNoiseRatio(fl.out, noise),
             is_outlier |-> is_outlier, is_peak |-> pk.out,
             trend_slope |-> tr.out.slope,
             trend_confidence |-> tr.out.confidence]
        quality == A_calculateSignalQuality(partial)
    IN  [p |-> [pk.p EXCEPT !.trend_analyzer_ = tr.t,
                            !.signal_quality_ = quality],
         analysis |-> [filtered_value |-> partial.filtered_value,
                       noise_level |-> partial.noise_level,
                       signal_to_noise_ratio |-> partial.signal_to_noise_ratio,
                       is_outlier |-> partial.is_outlier,
                       is_peak |-> partial.is_peak,
                       trend_slope |-> partial.trend_slope,
                       trend_confidence |-> partial.trend_confidence,
                       quality_score |-> quality],
         applied |-> fl.applied]

\* processReading from the peak test on
A_processReading_trend(value, fl, noise, is_outlier, pk) ==
    A_processReading_assemble(
        value, fl, noise, is_outlier, pk,
        IF pk.p.config_.enable_trend_detection
        THEN A_TrendAnalyzer_analyzeTrend(pk.p.trend_analyzer_, value)
        ELSE [t |-> pk.p.trend_analyzer_, out |-> NoTrend])

\* processReading from the noise estimate on: the filter result fl is at
\* hand
A_processReading_detect(p, value, fl) ==
    LET noise == updateNoiseEstimate(p.noise_level_estimate_, fl.out, value)
        p2 == [fl.p EXCEPT !.noise_level_estimate_ = noise]
    IN  A_processReading_trend(
            value, fl, noise,
            p2.config_.enable_outlier_removal /\ A_isOutlier(p2, value),
            IF p2.config_.enable_peak_detection
            THEN A_isPeak(p2, value)
            ELSE [p |-> p2, out |-> FALSE])

A_processReading(p, reading) ==
    A_processReading_detect(
        p, reading.lux_value,
        A_applyFilters(A_pushRecent(p, reading.lux_value), reading.lux_value))

A_reset(p) ==
    [p EXCEPT !.ma_filter_ = A_MovingAverageFilter_reset(p.ma_filter_),
              !.lp_filter_ = LowPassFilter_reset(p.lp_filter_),
              !.median_filter_ = A_MedianFilter_reset(p.median_filter_),
              !.adaptive_filter_ = AdaptiveFilter_reset(p.adaptive_filter_),
              !.trend_analyzer_ = A_TrendAnalyzer_reset(p.trend_analyzer_),
              !.recent_values_ = ZeroArray(MAX_RECENT_VALUES),
              !.recent_index_ = 0, !.recent_count_ = 0,
              !.noise_level_estimate_ = 0,
              !.signal_quality_ = InitialQuality,
              !.prev_value_ = 0, !.rising_ = FALSE]

A_configure(p, config) ==
    A_reset([p EXCEPT
        !.config_ = config,
        !.ma_enabled_ = config.moving_average_window > 1,
        !.lp_enabled_ = config.low_pass_cutoff > 0,
        !.median_enabled_ = config.enable_median_filter,
        !.adaptive_enabled_ = config.enable_adaptive_filter,
        !.trend_analyzer_ =
            A_TrendAnalyzer_setWindowSize(p.trend_analyzer_,
                                          config.trend_window),
        !.adaptive_filter_ =
            AdaptiveFilter_updateParameters(p.adaptive_filter_,
                                            config.adaptation_rate,
                                            config.noise_floor)])

A_setFilterEnabled(p, filter_type, enable) ==
    CASE filter_type = "MOVING_AVERAGE" -> [p EXCEPT !.ma_enabled_ = enable]
      [] filter_type = "LOW_PASS"       -> [p EXCEPT !.lp_enabled_ = enable]
      [] filter_type = "MEDIAN"         -> [p EXCEPT !.median_enabled_ = enable]
      [] filter_type = "ADAPTIVE"       -> [p EXCEPT !.adaptive_enabled_ = enable]
      [] OTHER                          -> p

(***************************************************************************)
(* Configurations and inputs explored                                      *)
(***************************************************************************)
\* ConfigManager::getDefaultConfig, signal section
DefaultConfig ==
    [moving_average_window |-> 5, low_pass_cutoff |-> 500,
     high_pass_cutoff |-> 10, enable_median_filter |-> TRUE,
     median_window |-> 3, noise_threshold |-> 10,
     enable_outlier_removal |-> TRUE, outlier_threshold |-> 2000,
     enable_trend_detection |-> TRUE, trend_window |-> 10,
     enable_peak_detection |-> FALSE, peak_threshold |-> 100,
     enable_adaptive_filter |-> TRUE, adaptation_rate |-> 100,
     noise_floor |-> 1]

\* every filter and detector on, short windows, outlier threshold 1.0
CfgAll ==
    [DefaultConfig EXCEPT !.moving_average_window = 3,
                          !.outlier_threshold = 1000, !.trend_window = 3,
                          !.enable_peak_detection = TRUE]

\* no filter, every detector on
CfgRaw ==
    [DefaultConfig EXCEPT !.moving_average_window = 1, !.low_pass_cutoff = 0,
                          !.enable_median_filter = FALSE,
                          !.enable_adaptive_filter = FALSE,
                          !.outlier_threshold = 1000, !.trend_window = 5,
                          !.enable_peak_detection = TRUE]

\* moving average of 2 and a slow low-pass, no detector
CfgSlow ==
    [DefaultConfig EXCEPT !.moving_average_window = 2, !.low_pass_cutoff = 20,
                          !.enable_median_filter = FALSE,
                          !.enable_adaptive_filter = FALSE,
                          !.enable_outlier_removal = FALSE,
                          !.enable_trend_detection = FALSE]

Configs == {CfgAll, CfgRaw, CfgSlow}

Variants == {"deque", "fixed"}

\* lux values fed to the pipeline
Values == {0, FromInt(4)}

FilterTypes == {"MOVING_AVERAGE", "LOW_PASS", "HIGH_PASS", "MEDIAN", "ADAPTIVE"}

\* processReading calls of a run
MaxReadings == 3

\* configure, reset and setFilterEnabled calls of a run
MaxControls == 1

(***************************************************************************)
(* The two builds behind one interface                                     *)
(***************************************************************************)
Construct(v, config) ==
    IF v = "deque" THEN D_SignalProcessor(config) ELSE A_SignalProcessor(config)

\* a reading flagged invalid is processed as the value 0
processReading_validOnly(v, p, reading) ==
    IF v = "deque"
    THEN D_processReading(p, IF reading.is_valid THEN reading
                             ELSE [reading EXCEPT !.lux_value = 0])
    ELSE A_processReading(p, IF reading.is_valid THEN reading
                             ELSE [reading EXCEPT !.lux_value = 0])

processReading(v, p, reading) ==
    IF v = "deque" THEN D_processReading(p, reading)
    ELSE A_processReading(p, reading)

configure(v, p, config) ==
    IF v = "deque" THEN D_configure(p, config) ELSE A_configure(p, config)

reset(v, p) == IF v = "deque" THEN D_reset(p) ELSE A_reset(p)

setFilterEnabled(v, p, filter_type, enable) ==
    IF v = "deque" THEN D_setFilterEnabled(p, filter_type, enable)
    ELSE A_setFilterEnabled(p, filter_type, enable)

getSignalQuality(p) == p.signal_quality_

NoAnalysis ==
    [filtered_value |-> 0, noise_level |-> 0, signal_to_noise_ratio |-> 0,
     is_outlier |-> FALSE, is_peak |-> FALSE, trend_slope |-> 0,
     trend_confidence |-> 0, quality_score |-> 0]

NoTwin == [live |-> FALSE, p |-> <<>>]

NoOps == [readings |-> 0, controls |-> 0]

NoComp == [kind |-> "none"]

NoScript == [name |-> "none"]

NoPending == [pc |-> "none"]

NoPower == [mode |-> "none"]

(***************************************************************************)
(* The pipeline as a state machine                                         *)
(*   proc      the SignalProcessor object                                  *)
(*   out       the last call and what it returned                          *)
(*   twin      after configure(c): a processor freshly constructed with c  *)
(*             that is fed the same samples (dropped by reset and          *)
(*             setFilterEnabled)                                           *)
(*   offByCall the filter kinds switched off by setFilterEnabled and not   *)
(*             switched on again since                                     *)
(***************************************************************************)
Init ==
    /\ variant \in Variants
    /\ pending = NoPending
    /\ pm = NoPower
    /\ \E c \in Configs : proc = Construct(variant, c)
    /\ out = [op |-> "construct", input |-> 0, analysis |-> NoAnalysis,
              applied |-> {}]
    /\ twin = NoTwin
    /\ twinOut = NoAnalysis
    /\ offByCall = {}
    /\ ops = NoOps
    /\ comp = NoComp
    /\ script = NoScript

\* the state after processReading(x) returned r, and t on the twin
Returned(x, r, t) ==
    /\ proc' = r.p
    /\ out' = [op |-> "processReading", input |-> x,
               analysis |-> r.analysis, applied |-> r.applied]
    /\ twin' = [twin EXCEPT !.p = t.p]
    /\ twinOut' = t.analysis

ProcessReading(x) ==
    /\ ops.readings < MaxReadings
    /\ Returned(x, processReading(variant, proc, [lux_value |-> x]),
                IF twin.live
                THEN processReading(variant, twin.p, [lux_value |-> x])
                ELSE [p |-> twin.p, analysis |-> NoAnalysis])
    /\ ops' = [ops EXCEPT !.readings = @ + 1]
    /\ UNCHANGED <<variant, offByCall, comp, script, pending, pm>>

Configure(c) ==
    /\ ops.controls < MaxControls
    /\ proc' = configure(variant, proc, c)
    /\ out' = [op |-> "configure", input |-> 0, analysis |-> NoAnalysis,
               applied |-> {}]
    /\ twin' = [live |-> TRUE, p |-> Construct(variant, c)]
    /\ twinOut' = NoAnalysis
    /\ offByCall' = {}
    /\ ops' = [ops EXCEPT !.controls = @ + 1]
    /\ UNCHANGED <<variant, comp, script, pending, pm>>

Reset ==
    /\ ops.controls < MaxControls
    /\ proc' = reset(variant, proc)
    /\ out' = [op |-> "reset", input |-> 0, analysis |-> NoAnalysis,
               applied |-> {}]
    /\ twin' = NoTwin
    /\ twinOut' = NoAnalysis
    /\ ops' = [ops EXCEPT !.controls = @ + 1]
    /\ UNCHANGED <<variant, offByCall, comp, script, pending, pm>>

SetFilterEnabled(filter_type, enable) ==
    /\ ops.controls < MaxControls
    /\ proc' = setFilterEnabled(variant, proc, filter_type, enable)
    /\ out' = [op |-> "setFilterEnabled", input |-> 0, analysis |-> NoAnalysis,
               applied |-> {}]
    /\ twin' = NoTwin
    /\ twinOut' = NoAnalysis
    /\ offByCall' = IF enable THEN offByCall \ {filter_type}
                    ELSE offByCall \cup {filter_type}
    /\ ops' = [ops EXCEPT !.controls = @ + 1]
    /\ UNCHANGED <<variant, comp, script, pending, pm>>

Next ==
    \/ \E x \in Values : ProcessReading(x)
    \/ \E c \in Configs : Configure(c)
    \/ Reset
    \/ \E k \in FilterTypes, e \in BOOLEAN : SetFilterEnabled(k, e)

Spec == Init /\ [][Next]_vars

(***************************************************************************)
(* C1: every quality score returned by processReading, and the value       *)
(* getSignalQuality() reports at any time, lies in [0, 100].               *)
(***************************************************************************)
QualityInRange ==
    /\ getSignalQuality(proc) >= 0 /\ getSignalQuality(proc) <= 100
    /\ out.op = "processReading" =>
           /\ out.analysis.quality_score >= 0
           /\ out.analysis.quality_score <= 100

\* a reading that took all three deductions: SNR below 1, outlier, weak trend
QualityAllDeductions ==
    /\ out.op = "processReading"
    /\ out.analysis.is_outlier
    /\ out.analysis.quality_score = 40

(***************************************************************************)
(* Observers of the processor state, one per build                         *)
(***************************************************************************)
RecentCount(v, p) ==
    IF v = "deque" THEN Len(p.recent_values_) ELSE p.recent_count_

TrendCount(v, p) ==
    IF v = "deque" THEN Len(p.trend_analyzer_.buffer_)
    ELSE p.trend_analyzer_.buffer_count_

PeakPrevValue(v, p) ==
    IF v = "deque" THEN p.peak_detector_.prev_value_ ELSE p.prev_value_

PeakRising(v, p) ==
    IF v = "deque" THEN p.peak_detector_.rising_ ELSE p.rising_

(***************************************************************************)
(* C2: after configure(c), every sample is filtered to the same value as   *)
(* by a processor freshly constructed with c and fed the same samples.     *)
(***************************************************************************)
ConfigureMatchesFresh ==
    (twin.live /\ out.op = "processReading") =>
        out.analysis.filtered_value = twinOut.filtered_value

(***************************************************************************)
(* C3: right after configure() the recent-value window and the trend       *)
(* buffer are empty, the noise estimate is 0, and the peak detector has    *)
(* prev_value 0 and rising false.                                          *)
(***************************************************************************)
ConfigureResetsEverything ==
    out.op = "configure" =>
        /\ RecentCount(variant, proc) = 0
        /\ TrendCount(variant, proc) = 0
        /\ proc.noise_level_estimate_ = 0
        /\ PeakPrevValue(variant, proc) = 0
        /\ PeakRising(variant, proc) = FALSE

(***************************************************************************)
(* C4: while a filter kind is switched off by setFilterEnabled(kind,       *)
(* false), processReading does not run the filter of that kind.            *)
(***************************************************************************)
DisabledFilterNotApplied ==
    out.op = "processReading" => out.applied \cap offByCall = {}

(***************************************************************************)
(* The filter chain as the specification words it: the filters of the      *)
(* kinds in `enabled`, in the order moving average, median, low-pass,      *)
(* adaptive, each given the result of the one before.                      *)
(***************************************************************************)
FilterOrder == <<"MOVING_AVERAGE", "MEDIAN", "LOW_PASS", "ADAPTIVE">>

\* the kinds the configuration enables
ConfigEnabled(c) ==
    (IF c.moving_average_window > 1 THEN {"MOVING_AVERAGE"} ELSE {})
    \cup (IF c.enable_median_filter THEN {"MEDIAN"} ELSE {})
    \cup (IF c.low_pass_cutoff > 0 THEN {"LOW_PASS"} ELSE {})
    \cup (IF c.enable_adaptive_filter THEN {"ADAPTIVE"} ELSE {})

\* the kinds that are switched on: the flags of the fixed-array build, which
\* setFilterEnabled changes, and the configuration in the deque build
SwitchedOn(v, p) ==
    IF v = "deque" THEN ConfigEnabled(p.config_)
    ELSE (IF p.ma_enabled_ THEN {"MOVING_AVERAGE"} ELSE {})
         \cup (IF p.median_enabled_ THEN {"MEDIAN"} ELSE {})
         \cup (IF p.lp_enabled_ THEN {"LOW_PASS"} ELSE {})
         \cup (IF p.adaptive_enabled_ THEN {"ADAPTIVE"} ELSE {})

\* the processor's filter object of a kind; the deque build has none for a
\* median window of 1, with which a median filter returns its input
FilterOf(v, p, kind) ==
    IF v = "deque"
    THEN IF \E i \in 1..Len(p.filters_) : p.filters_[i].type = kind
         THEN p.filters_[CHOOSE i \in 1..Len(p.filters_) :
                             p.filters_[i].type = kind]
         ELSE D_MedianFilter(p.config_.median_window)
    ELSE CASE kind = "MOVING_AVERAGE" -> p.ma_filter_
           [] kind = "MEDIAN"         -> p.median_filter_
           [] kind = "LOW_PASS"       -> p.lp_filter_
           [] kind = "ADAPTIVE"       -> p.adaptive_filter_

\* what the filter object f returns for x
FilterResult(v, f, x) ==
    IF v = "deque" THEN D_Filter_process(f, x).out
    ELSE CASE f.type = "MOVING_AVERAGE" -> A_MovingAverageFilter_process(f, x).out
           [] f.type = "MEDIAN"         -> A_MedianFilter_process(f, x).out
           [] f.type = "LOW_PASS"       -> LowPassFilter_process(f, x).out
           [] f.type = "ADAPTIVE"       -> AdaptiveFilter_process(f, x).out

RECURSIVE OrderedChain(_, _, _, _, _)
OrderedChain(v, p, enabled, order, value) ==
    IF order = <<>> THEN value
    ELSE OrderedChain(v, p, enabled, Tail(order),
                      IF Head(order) \in enabled
                      THEN FilterResult(v, FilterOf(v, p, Head(order)), value)
                      ELSE value)

\* a step that is a processReading call
ReadingStep == ops'.readings = ops.readings + 1

(***************************************************************************)
(* C17 as stated: filtered_value is the raw lux value passed through the   *)
(* filters the configuration enables (moving_average_window > 1, median    *)
(* enabled, low_pass_cutoff > 0, adaptive enabled) in the order moving     *)
(* average, median, low-pass, adaptive; with none enabled it is the raw    *)
(* value.                                                                  *)
(***************************************************************************)
FilteredByConfiguredChain ==
    [][ReadingStep =>
          out'.analysis.filtered_value =
              OrderedChain(variant, proc, ConfigEnabled(proc.config_),
                           FilterOrder, out'.input)]_vars

(***************************************************************************)
(* C17 as amended: the same over the filters that are switched on, which   *)
(* in the fixed-array build are those of the configuration as changed by   *)
(* later setFilterEnabled calls.                                           *)
(***************************************************************************)
FilteredBySwitchedOnChain ==
    [][ReadingStep =>
          out'.analysis.filtered_value =
              OrderedChain(variant, proc, SwitchedOn(variant, proc),
                           FilterOrder, out'.input)]_vars

\* the third reading went through the moving average and the median, and
\* the result is not the raw value
ThirdReadingThroughChain ==
    /\ out.op = "processReading"
    /\ ops.readings = 3
    /\ {"MOVING_AVERAGE", "MEDIAN"} \subseteq out.applied
    /\ out.analysis.filtered_value # out.input

(***************************************************************************)
(* The bounded buffers read as queues.  The deque build keeps them in      *)
(* arrival order; the fixed-array build keeps a ring, whose oldest entry   *)
(* is at index 0 until the ring is full and at the write index afterwards. *)
(***************************************************************************)
Ring(buffer, index, count, size) ==
    IF count < size THEN Prefix(buffer, count)
    ELSE [i \in 1..size |-> buffer[((index + i - 1) % size) + 1]]

Queue(v, f) ==
    IF v = "deque" THEN f.buffer_
    ELSE Ring(f.buffer_, f.buffer_index_, f.buffer_count_, f.window_size_)

RecentQueue(v, p) ==
    IF v = "deque" THEN p.recent_values_
    ELSE Ring(p.recent_values_, p.recent_index_, p.recent_count_,
              MAX_RECENT_VALUES)

\* a queue of at most `capacity` values after x arrived
Pushed(queue, x, capacity) ==
    IF Len(queue) < capacity THEN Append(queue, x) ELSE Append(Tail(queue), x)

\* what the median filter is given: the moving average if that ran
MedianInput(v, p, x, applied) ==
    IF "MOVING_AVERAGE" \in applied
    THEN FilterResult(v, FilterOf(v, p, "MOVING_AVERAGE"), x)
    ELSE x

\* filter `kind`, if it ran, queued x in a window of `window` values
FilterQueued(kind, x, window) ==
    kind \in out'.applied =>
        Queue(variant, FilterOf(variant, proc', kind)) =
            Pushed(Queue(variant, FilterOf(variant, proc, kind)), x, window)

(***************************************************************************)
(* C19: after a processReading call the moving-average, median and trend   *)
(* buffers hold the values they were given, oldest first, up to the window *)
(* the configuration sets, and the recent values hold the raw values up to *)
(* 20; a value arriving at a full buffer displaces the oldest one only.    *)
(***************************************************************************)
BuffersAreBoundedQueues ==
    [][ReadingStep =>
          /\ RecentQueue(variant, proc') =
                 Pushed(RecentQueue(variant, proc), out'.input, 20)
          /\ FilterQueued("MOVING_AVERAGE", out'.input,
                          proc.config_.moving_average_window)
          /\ FilterQueued("MEDIAN",
                          MedianInput(variant, proc, out'.input, out'.applied),
                          proc.config_.median_window)
          /\ proc.config_.enable_trend_detection =>
                 Queue(variant, proc'.trend_analyzer_) =
                     Pushed(Queue(variant, proc.trend_analyzer_), out'.input,
                            proc.config_.trend_window)]_vars

(***************************************************************************)
(* C21: every isPeak call, also one that returns false for lack of three   *)
(* recent values, leaves prev_value at the value given and rising telling  *)
(* whether that value was above the prev_value before the call.            *)
(***************************************************************************)
PeakStateFollowsEveryCall ==
    [][(ReadingStep /\ proc.config_.enable_peak_detection) =>
          /\ PeakPrevValue(variant, proc') = out'.input
          /\ PeakRising(variant, proc') =
                 (out'.input > PeakPrevValue(variant, proc))]_vars

\* the step is one of the first two processReading calls after construction
\* or configure(): the recent values were emptied by one of the two and at
\* most two have arrived since
EarlyReadingStep ==
    /\ ReadingStep
    /\ ops.controls = 0 \/ twin.live
    /\ RecentCount(variant, proc') <= 2

AllDetectorsEnabled(c) ==
    /\ c.enable_outlier_removal
    /\ c.enable_peak_detection
    /\ c.enable_trend_detection

(***************************************************************************)
(* C22: with every detector enabled, each of the first two processReading  *)
(* calls after construction or configure() returns is_outlier = false,     *)
(* is_peak = false, trend_slope = 0 and trend_confidence = 0.              *)
(***************************************************************************)
EarlyReadingsFallBack ==
    [][(EarlyReadingStep /\ AllDetectorsEnabled(proc.config_)) =>
          /\ ~out'.analysis.is_outlier
          /\ ~out'.analysis.is_peak
          /\ out'.analysis.trend_slope = 0
          /\ out'.analysis.trend_confidence = 0]_vars

(***************************************************************************)
(* C26: the quality score returned by processReading is never below 40,    *)
(* and it is at most 90 on a call where trend detection is disabled or     *)
(* the trend analyzer holds fewer than 3 samples (it is emptied by         *)
(* configure() and fed one sample per call, so fewer than 3 received       *)
(* since configure() means fewer than 3 held).                             *)
(***************************************************************************)
TrendMissing ==
    \/ ~proc.config_.enable_trend_detection
    \/ TrendCount(variant, proc) < 3

QualityWithinRange ==
    out.op = "processReading" =>
        /\ out.analysis.quality_score >= 40
        /\ TrendMissing => out.analysis.quality_score <= 90

QualityNinetyWithoutTrend ==
    /\ out.op = "processReading"
    /\ proc.config_.enable_trend_detection
    /\ TrendCount(variant, proc) = 2
    /\ out.analysis.quality_score = 90

(***************************************************************************)
(* The filter and analyzer classes on their own (specification             *)
(* SpecFilters): one object of one class, constructed with window W, fed   *)
(* one input per step.                                                     *)
(*   comp.hist  the inputs since construction or the last reset            *)
(*   comp.out   what the last call returned                                *)
(***************************************************************************)
CompKinds == {"ma", "median", "trend"}

\* window sizes passed to the constructors; one lies above MAX_FILTER_WINDOW
CompWindows(kind) ==
    IF kind = "trend" THEN {3, 5, 10}
    ELSE {1, 2, 3, MAX_FILTER_WINDOW + 1}

CompValues(kind) ==
    CASE kind = "ma"     -> {0, FromInt(1), FromInt(3)}
      [] kind = "median" -> {0, FromInt(1), FromInt(2)}
      [] kind = "trend"  -> {0, FromInt(10), FromInt(20), FromInt(30),
                             FromInt(40), 100, 400, 700}

MaxCompCalls == 5

MaxSpikes == 2

FreeCalls == 3

MaxCompResets == 1

\* calls explored for a window: long enough to fill it and evict once
CallLimit(W) == IF W + 1 > MaxCompCalls THEN W + 1 ELSE MaxCompCalls

NonZeroCount(s) == Cardinality({i \in 1..Len(s) : s[i] # 0})

\* the input sequences explored: moving average, mostly zero with a few
\* spikes; median, free at first and then non-decreasing; trend, at each
\* step the next multiple of ten, the lowest or the highest value, or the
\* next value of the falling sequence 0.7, 0.4, 0.1
CompAllowed(c, x) ==
    CASE c.kind = "ma"     -> x = 0 \/ NonZeroCount(c.hist) < MaxSpikes
      [] c.kind = "median" -> IF Len(c.hist) < FreeCalls THEN TRUE
                              ELSE x >= c.hist[Len(c.hist)]
      [] c.kind = "trend"  -> /\ Len(c.hist) < MaxCompCalls
                              /\ x \in {0, FromInt(10 * Len(c.hist)),
                                        FromInt(40), 700 - 300 * Len(c.hist)}

CompNew(v, kind, W) ==
    CASE kind = "ma"     -> IF v = "deque" THEN D_MovingAverageFilter(W)
                            ELSE A_MovingAverageFilter(W)
      [] kind = "median" -> IF v = "deque" THEN D_MedianFilter(W)
                            ELSE A_MedianFilter(W)
      [] kind = "trend"  -> IF v = "deque" THEN D_TrendAnalyzer(W)
                            ELSE A_TrendAnalyzer(W)

CompCall(v, kind, f, x) ==
    CASE kind = "ma"     -> IF v = "deque" THEN D_MovingAverageFilter_process(f, x)
                            ELSE A_MovingAverageFilter_process(f, x)
      [] kind = "median" -> IF v = "deque" THEN D_MedianFilter_process(f, x)
                            ELSE A_MedianFilter_process(f, x)
      [] kind = "trend"  ->
            LET r == IF v = "deque" THEN D_TrendAnalyzer_analyzeTrend(f, x)
                     ELSE A_TrendAnalyzer_analyzeTrend(f, x)
            IN  [f |-> r.t, out |-> r.out]

\* reset(); the trend analyzer is emptied through setWindowSize
CompClear(v, kind, f, W) ==
    CASE kind = "ma"     -> IF v = "deque" THEN D_MovingAverageFilter_reset(f)
                            ELSE A_MovingAverageFilter_reset(f)
      [] kind = "median" -> IF v = "deque" THEN D_MedianFilter_reset(f)
                            ELSE A_MedianFilter_reset(f)
      [] kind = "trend"  -> IF v = "deque" THEN D_TrendAnalyzer_setWindowSize(f, W)
                            ELSE A_TrendAnalyzer_setWindowSize(f, W)

Idle ==
    /\ proc = <<>>
    /\ out = [op |-> "none", input |-> 0, analysis |-> NoAnalysis,
              applied |-> {}]
    /\ twin = NoTwin
    /\ twinOut = NoAnalysis
    /\ offByCall = {}
    /\ ops = NoOps

InitFilters ==
    /\ variant \in Variants
    /\ pending = NoPending
    /\ pm = NoPower
    /\ Idle
    /\ script = NoScript
    /\ \E kind \in CompKinds : \E W \in CompWindows(kind) :
           comp = [kind |-> kind, W |-> W, f |-> CompNew(variant, kind, W),
                   hist |-> <<>>, out |-> 0, resets |-> 0]

CompProcess(x) ==
    /\ comp.kind \in CompKinds
    /\ Len(comp.hist) < CallLimit(comp.W)
    /\ CompAllowed(comp, x)
    /\ LET r == CompCall(variant, comp.kind, comp.f, x)
       IN  comp' = [comp EXCEPT !.f = r.f, !.out = r.out,
                                !.hist = Append(@, x)]
    /\ UNCHANGED <<variant, proc, out, twin, twinOut, offByCall, ops, script,
                   pending, pm>>

CompReset ==
    /\ comp.kind \in CompKinds
    /\ comp.resets < MaxCompResets
    /\ comp.hist # <<>>
    /\ comp' = [comp EXCEPT !.f = CompClear(variant, comp.kind, comp.f, comp.W),
                            !.hist = <<>>, !.out = 0, !.resets = @ + 1]
    /\ UNCHANGED <<variant, proc, out, twin, twinOut, offByCall, ops, script,
                   pending, pm>>

NextFilters ==
    \/ \E x \in CompValues(comp.kind) : CompProcess(x)
    \/ CompReset

SpecFilters == InitFilters /\ [][NextFilters]_vars

\* the last n elements of s
LastN(s, n) == SubSeq(s, Len(s) - n + 1, Len(s))

\* the window the object works with
EffectiveWindow(v, W) ==
    IF v = "fixed" /\ W > MAX_FILTER_WINDOW THEN MAX_FILTER_WINDOW ELSE W

\* the values an object currently buffers
Buffered(v, f) ==
    IF v = "deque" THEN f.buffer_ ELSE Prefix(f.buffer_, f.buffer_count_)

\* the mean of the last min(W, k) of the k inputs in hist
MeanOfLast(hist, W) ==
    LET n == IF Len(hist) < W THEN Len(hist) ELSE W
    IN  FDivInt(SumSeq(LastN(hist, n)), n)

MovingAverageContract(W) ==
    (comp.kind = "ma" /\ comp.hist # <<>>) =>
        /\ comp.out = MeanOfLast(comp.hist, W)
        /\ comp.f.sum_ = SumSeq(Buffered(variant, comp.f))

MedianContract(W) ==
    comp.kind = "median" =>
        /\ comp.hist = <<>> => Buffered(variant, comp.f) = <<>>
        /\ comp.hist # <<>> =>
               LET n == IF Len(comp.hist) < W THEN Len(comp.hist) ELSE W
               IN  comp.out = IF n < 3 THEN comp.hist[Len(comp.hist)]
                              ELSE MiddleOf(Sorted(LastN(comp.hist, n)))

NonDecreasing(s) == \A i \in 1..(Len(s) - 1) : s[i] <= s[i + 1]

MedianCallOnSorted ==
    /\ comp.kind = "median"
    /\ comp.hist # <<>>
    /\ Len(comp'.hist) = Len(comp.hist) + 1
    /\ NonDecreasing(comp'.hist)

MedianKeepsOrder ==
    [][MedianCallOnSorted => comp'.out >= comp.out]_vars

\* a full window of three has evicted its oldest input and the median of
\* rising inputs is not the input just given
MedianOfRisingWindow ==
    /\ comp.kind = "median"
    /\ comp.W = 3
    /\ Len(comp.hist) = 4
    /\ NonDecreasing(comp.hist)
    /\ comp.hist[1] < comp.hist[2]
    /\ comp.out < comp.hist[4]

(***************************************************************************)
(* C8: a fresh trend analyzer with a window of 5 or more, fed              *)
(* 0, 10, 20, 30, 40, returns slope 10, confidence 1 and is_increasing on  *)
(* the fifth call.                                                         *)
(***************************************************************************)
Ramp == <<0, FromInt(10), FromInt(20), FromInt(30), FromInt(40)>>

TrendOfRamp ==
    (comp.kind = "trend" /\ comp.W >= 5 /\ comp.resets = 0 /\ comp.hist = Ramp) =>
        /\ comp.out.slope = FromInt(10)
        /\ comp.out.confidence = One
        /\ comp.out.is_increasing

(***************************************************************************)
(* Scripted runs (specification SpecScript): a fresh processor is fed a    *)
(* fixed sample sequence, one sample per step.                             *)
(*   script.outliers, script.peaks   the flags returned so far             *)
(* Between samples the outlier test may be called with any value against   *)
(* the current recent-value window (Probe).                                *)
(***************************************************************************)
OutlierSamples ==
    <<FromInt(100), FromInt(102), FromInt(98), FromInt(105), FromInt(103),
      FromInt(200),
      FromInt(101), FromInt(103), FromInt(99), FromInt(104), FromInt(102)>>

PeakSamples ==
    <<FromInt(1), FromInt(2), FromInt(3), FromInt(4), FromInt(3), FromInt(2),
      FromInt(1)>>

\* length of the runs of identical samples; above the recent-value capacity
MaxConstant == 22

ConstantValues == {0, 100, FromInt(1), FromInt(100)}

ProbeValues == {0, FromInt(1), FromInt(7)}

ScriptNames == {"outlier11", "peak7", "constant"}

\* the filter settings a script leaves open
FilterChoices(base, windows) ==
    {[base EXCEPT !.moving_average_window = w, !.enable_median_filter = m,
                  !.low_pass_cutoff = lp, !.enable_adaptive_filter = a]
        : w \in windows, m \in BOOLEAN, lp \in {0, 500}, a \in BOOLEAN}

ScriptConfigs(name) ==
    CASE name = "outlier11" ->
            {[c EXCEPT !.enable_trend_detection = t, !.enable_peak_detection = k]
                : c \in FilterChoices(DefaultConfig, {5}),
                  t \in BOOLEAN, k \in BOOLEAN}
      [] name = "peak7" ->
            {[c EXCEPT !.enable_peak_detection = TRUE,
                       !.enable_trend_detection = t,
                       !.enable_outlier_removal = o]
                : c \in FilterChoices(DefaultConfig, {1, 3}),
                  t \in BOOLEAN, o \in BOOLEAN}
      [] name = "constant" ->
            {[c EXCEPT !.outlier_threshold = th]
                : c \in {DefaultConfig, CfgRaw}, th \in {500, 2000}}

ScriptLength(sc) ==
    CASE sc.name = "outlier11" -> Len(OutlierSamples)
      [] sc.name = "peak7"     -> Len(PeakSamples)
      [] sc.name = "constant"  -> MaxConstant

ScriptSample(sc, i) ==
    CASE sc.name = "outlier11" -> OutlierSamples[i]
      [] sc.name = "peak7"     -> PeakSamples[i]
      [] sc.name = "constant"  -> sc.value

InitScript ==
    /\ variant \in Variants
    /\ pending = NoPending
    /\ pm = NoPower
    /\ comp = NoComp
    /\ twin = NoTwin
    /\ twinOut = NoAnalysis
    /\ offByCall = {}
    /\ ops = NoOps
    /\ out = [op |-> "construct", input |-> 0, analysis |-> NoAnalysis,
              applied |-> {}]
    /\ \E name \in ScriptNames :
          /\ \E c \in ScriptConfigs(name) : proc = Construct(variant, c)
          /\ \E v \in ConstantValues :
                /\ name # "constant" => v = 0
                /\ script = [name |-> name, value |-> v, pos |-> 0,
                             outliers |-> <<>>, peaks |-> <<>>]

\* the state after processReading(x) returned r in a scripted run
Recorded(x, r) ==
    /\ proc' = r.p
    /\ out' = [op |-> "processReading", input |-> x,
               analysis |-> r.analysis, applied |-> r.applied]
    /\ script' = [script EXCEPT
                    !.pos = @ + 1,
                    !.outliers = Append(@, r.analysis.is_outlier),
                    !.peaks = Append(@, r.analysis.is_peak)]

ScriptStep ==
    /\ script.name \in ScriptNames
    /\ script.pos < ScriptLength(script)
    /\ Recorded(ScriptSample(script, script.pos + 1),
                processReading(variant, proc,
                               [lux_value |->
                                    ScriptSample(script, script.pos + 1)]))
    /\ UNCHANGED <<variant, twin, twinOut, offByCall, ops, comp, pending, pm>>

\* the window the outlier test reads
RecentWindow(v, p) ==
    IF v = "deque" THEN p.recent_values_
    ELSE Prefix(p.recent_values_, p.recent_count_)

isOutlier(v, p, value) ==
    IF v = "deque"
    THEN OutlierDetector_isOutlier(p.outlier_detector_, value, p.recent_values_)
    ELSE A_isOutlier(p, value)

Probe(value) ==
    /\ script.name = "constant"
    /\ out.op = "processReading"
    /\ out' = [op |-> "probe", input |-> value,
               analysis |-> [NoAnalysis EXCEPT
                               !.is_outlier = isOutlier(variant, proc, value)],
               applied |-> {}]
    /\ UNCHANGED <<variant, proc, twin, twinOut, offByCall, ops, comp, script,
                   pending, pm>>

NextScript ==
    \/ ScriptStep
    \/ \E value \in ProbeValues : Probe(value)

SpecScript == InitScript /\ [][NextScript]_vars

(***************************************************************************)
(* C5: with moving_average_window 5 and outlier_threshold 2.0 the          *)
(* sequence 100,102,98,105,103,200,101,103,99,104,102 flags the sample     *)
(* 200 as an outlier and none of the other ten.                            *)
(***************************************************************************)
OnlyThe200IsAnOutlier ==
    script.name = "outlier11" =>
        \A i \in 1..Len(script.outliers) : script.outliers[i] = (i = 6)

OutlierRunComplete ==
    /\ script.name = "outlier11"
    /\ script.pos = 11
    /\ script.outliers[6]

(***************************************************************************)
(* C9: with peak detection on and peak_threshold 0.1 the sequence          *)
(* 1,2,3,4,3,2,1 yields is_peak on exactly one of the seven samples.       *)
(***************************************************************************)
ExactlyOnePeak ==
    (script.name = "peak7" /\ script.pos = 7) =>
        Cardinality({i \in 1..7 : script.peaks[i]}) = 1

PeakRunComplete ==
    /\ script.name = "peak7"
    /\ script.pos = 7
    /\ script.peaks[5]

(***************************************************************************)
(* C10: the outlier test returns false for any tested value and any        *)
(* threshold while all values of the recent window are equal, and a run    *)
(* of identical samples never yields is_outlier.                           *)
(***************************************************************************)
AllEqual(s) == \A i, j \in 1..Len(s) : s[i] = s[j]

FlatWindowNeverFlags ==
    /\ (out.op \in {"processReading", "probe"}
        /\ AllEqual(RecentWindow(variant, proc))) => ~out.analysis.is_outlier
    /\ script.name = "constant" =>
           \A i \in 1..Len(script.outliers) : ~script.outliers[i]

(***************************************************************************)
(* C11: every confidence returned by analyzeTrend lies in [0, 1], while    *)
(* the window is filling and after it has wrapped.                         *)
(***************************************************************************)
TrendConfidenceInUnitInterval ==
    (comp.kind = "trend" /\ comp.hist # <<>>) =>
        /\ ~comp.out.confidence_float.neg
        /\ ~F32Gt(comp.out.confidence_float, F32FromNat(1))

(***************************************************************************)
(* Two processors side by side (specification SpecPair).  proc and twin.p  *)
(* are fed the same lux values; twin.relation says how the two differ:     *)
(*   "validity"  same configuration, the readings differ in every field    *)
(*               but lux_value                                             *)
(*   "reset"     proc has processed readings and was reset, twin.p is      *)
(*               fresh (twin.live from the reset on)                       *)
(*   "filters"   proc runs no filter, twin.p any combination of filters    *)
(***************************************************************************)
Relations == {"validity", "reset", "filters"}

\* a reading as the sensor delivers it: valid, taken at time 0
Trusted ==
    [timestamp_ms |-> 0, raw_value |-> 0, voltage |-> 0, is_valid |-> TRUE,
     quality |-> 0]

\* the fields of a SensorReading other than lux_value
Metas ==
    {[timestamp_ms |-> k * 1000, raw_value |-> k * 500, voltage |-> k * 1650,
      is_valid |-> b, quality |-> k * 100] : k \in {0, 1}, b \in BOOLEAN}
        \cup {Trusted}

SensorReading(x, m) ==
    [timestamp_ms |-> m.timestamp_ms, raw_value |-> m.raw_value,
     lux_value |-> x, voltage |-> m.voltage, is_valid |-> m.is_valid,
     quality |-> m.quality]

\* readings fed to both processors of a pair
MaxPairReadings == 4

\* readings fed before the reset
MaxWarmUp == 3

\* the configurations of proc and twin.p
PairConfigs(relation) ==
    CASE relation = "validity" -> {<<c, c>> : c \in Configs}
      [] relation = "reset"    -> {<<c, c>> : c \in {CfgAll, CfgRaw}}
      [] relation = "filters"  ->
             {<<CfgRaw, c>> : c \in FilterChoices(CfgRaw, {1, 3})}

InitPair ==
    /\ variant \in Variants
    /\ pending = NoPending
    /\ pm = NoPower
    /\ comp = NoComp
    /\ script = NoScript
    /\ offByCall = {}
    /\ ops = NoOps
    /\ twinOut = NoAnalysis
    /\ out = [op |-> "construct", input |-> 0, analysis |-> NoAnalysis,
              applied |-> {}]
    /\ \E relation \in Relations : \E cc \in PairConfigs(relation) :
          /\ proc = Construct(variant, cc[1])
          /\ twin = [live |-> relation # "reset",
                     p |-> Construct(variant, cc[2]), relation |-> relation]

\* the state after proc returned r and twin.p returned t
PairReturned(x, m, r, t) ==
    /\ proc' = r.p
    /\ out' = [op |-> "processReading", input |-> x,
               analysis |-> r.analysis, applied |-> r.applied,
               twin_valid |-> m.is_valid, twin_applied |-> t.applied]
    /\ twin' = [twin EXCEPT !.p = t.p]
    /\ twinOut' = t.analysis

\* both processors are handed a reading with lux_value x: proc a trusted
\* one, twin.p one with the other fields m
PairReading(x, m) ==
    /\ twin.live
    /\ ops.readings < MaxPairReadings
    /\ twin.relation # "validity" => m = Trusted
    /\ PairReturned(x, m,
                    processReading(variant, proc, SensorReading(x, Trusted)),
                    processReading(variant, twin.p, SensorReading(x, m)))
    /\ ops' = [ops EXCEPT !.readings = @ + 1]
    /\ UNCHANGED <<variant, offByCall, comp, script, pending, pm>>

\* proc alone is handed a reading, before its reset
PairWarmedUp(x, r) ==
    /\ proc' = r.p
    /\ out' = [op |-> "warmUp", input |-> x, analysis |-> r.analysis,
               applied |-> r.applied]

PairWarmUp(x, m) ==
    /\ twin.relation = "reset"
    /\ ~twin.live
    /\ ops.readings < MaxWarmUp
    /\ PairWarmedUp(x, processReading(variant, proc, SensorReading(x, m)))
    /\ ops' = [ops EXCEPT !.readings = @ + 1]
    /\ UNCHANGED <<variant, twin, twinOut, offByCall, comp, script,
                   pending, pm>>

PairReset ==
    /\ twin.relation = "reset"
    /\ ~twin.live
    /\ proc' = reset(variant, proc)
    /\ out' = [op |-> "reset", input |-> 0, analysis |-> NoAnalysis,
               applied |-> {}]
    /\ twin' = [twin EXCEPT !.live = TRUE]
    /\ ops' = [readings |-> 0, controls |-> ops.readings]
    /\ UNCHANGED <<variant, twinOut, offByCall, comp, script, pending, pm>>

NextPair ==
    \/ \E x \in Values, m \in Metas : PairReading(x, m)
    \/ \E x \in Values : PairWarmUp(x, Trusted)
    \/ PairReset

SpecPair == InitPair /\ [][NextPair]_vars

(***************************************************************************)
(* C12: two processors with the same configuration, fed readings that      *)
(* agree on lux_value and differ in is_valid, timestamp, raw_value,        *)
(* voltage and quality, return the same analysis at every position.        *)
(***************************************************************************)
ValidityNotInterpreted ==
    (twin.relation = "validity" /\ out.op = "processReading") =>
        out.analysis = twinOut

\* an outlier was processed that one of the two was told is invalid
InvalidOutlierProcessed ==
    /\ twin.relation = "validity"
    /\ out.op = "processReading"
    /\ ~out.twin_valid
    /\ out.analysis.is_outlier
    /\ twinOut.is_outlier

(***************************************************************************)
(* C14: after reset(), processReading returns for every later sample the   *)
(* same analysis as a freshly constructed processor with the same          *)
(* configuration.                                                          *)
(***************************************************************************)
ResetMatchesFresh ==
    (twin.relation = "reset" /\ out.op = "processReading") =>
        out.analysis = twinOut

(***************************************************************************)
(* C18: is_outlier, is_peak, trend_slope and trend_confidence of a sample  *)
(* sequence are the same whichever filters run and whatever their          *)
(* parameters are.                                                         *)
(***************************************************************************)
DetectorsSeeRawValues ==
    (twin.relation = "filters" /\ out.op = "processReading") =>
        /\ out.analysis.is_outlier = twinOut.is_outlier
        /\ out.analysis.is_peak = twinOut.is_peak
        /\ out.analysis.trend_slope = twinOut.trend_slope
        /\ out.analysis.trend_confidence = twinOut.trend_confidence

\* a peak was found while the filtered values of the two differ
PeakUnderDifferentFilters ==
    /\ twin.relation = "filters"
    /\ out.op = "processReading"
    /\ out.analysis.is_peak
    /\ out.analysis.trend_slope # 0
    /\ out.analysis.filtered_value # twinOut.filtered_value

(***************************************************************************)
(* configure() statement by statement, called from a second call site      *)
(* while the read loop calls processReading (specification SpecAsync).     *)
(* Neither build guards the processor, so the loop's call may fall         *)
(* between any two statements of configure().                              *)
(*   pending.pc      statements of configure() executed so far; 0 when no  *)
(*                   call is in progress                                   *)
(*   pending.config  the argument of the call                              *)
(*   out.during      pending.pc when processReading ran                    *)
(***************************************************************************)
\* statements of configure()
ConfigureLength == 5

\* the k-th statement of configure(config), deque build
D_configureStatement(p, config, k) ==
    CASE k = 1 -> [p EXCEPT !.config_ = config]
      [] k = 2 -> [p EXCEPT
                     !.outlier_detector_.threshold_ = config.outlier_threshold,
                     !.peak_detector_.threshold_ = config.peak_threshold]
      [] k = 3 -> [p EXCEPT !.trend_analyzer_ =
                      D_TrendAnalyzer_setWindowSize(p.trend_analyzer_,
                                                    config.trend_window)]
      [] k = 4 -> D_reset(p)
      [] k = 5 -> D_initializeFilters(p)

\* the k-th statement of configure(config), fixed-array build
A_configureStatement(p, config, k) ==
    CASE k = 1 -> [p EXCEPT !.config_ = config]
      [] k = 2 -> [p EXCEPT
                     !.ma_enabled_ = config.moving_average_window > 1,
                     !.lp_enabled_ = config.low_pass_cutoff > 0,
                     !.median_enabled_ = config.enable_median_filter,
                     !.adaptive_enabled_ = config.enable_adaptive_filter]
      [] k = 3 -> [p EXCEPT !.trend_analyzer_ =
                      A_TrendAnalyzer_setWindowSize(p.trend_analyzer_,
                                                    config.trend_window)]
      [] k = 4 -> [p EXCEPT !.adaptive_filter_ =
                      AdaptiveFilter_updateParameters(p.adaptive_filter_,
                                                      config.adaptation_rate,
                                                      config.noise_floor)]
      [] k = 5 -> A_reset(p)

configureStatement(v, p, config, k) ==
    IF v = "deque" THEN D_configureStatement(p, config, k)
    ELSE A_configureStatement(p, config, k)

InitAsync ==
    /\ variant \in Variants
    /\ \E c \in Configs :
          /\ proc = Construct(variant, c)
          /\ pending = [pc |-> 0, config |-> c]
    /\ out = [op |-> "construct", input |-> 0, analysis |-> NoAnalysis,
              applied |-> {}, during |-> 0]
    /\ twin = NoTwin
    /\ twinOut = NoAnalysis
    /\ offByCall = {}
    /\ ops = NoOps
    /\ comp = NoComp
    /\ script = NoScript
    /\ pm = NoPower

\* the state after the loop's processReading(x) returned r
AsyncReturned(x, r) ==
    /\ proc' = r.p
    /\ out' = [op |-> "processReading", input |-> x,
               analysis |-> r.analysis, applied |-> r.applied,
               during |-> pending.pc]

\* loop(): processReading
AsyncReading(x) ==
    /\ ops.readings < MaxReadings
    /\ AsyncReturned(x, processReading(variant, proc, [lux_value |-> x]))
    /\ ops' = [ops EXCEPT !.readings = @ + 1]
    /\ UNCHANGED <<variant, twin, twinOut, offByCall, comp, script, pending,
                   pm>>

\* the second call site enters configure(c)
ConfigureBegin(c) ==
    /\ pending.pc = 0
    /\ ops.controls < MaxControls
    /\ proc' = configureStatement(variant, proc, c, 1)
    /\ pending' = [pc |-> 1, config |-> c]
    /\ ops' = [ops EXCEPT !.controls = @ + 1]
    /\ UNCHANGED <<variant, out, twin, twinOut, offByCall, comp, script, pm>>

\* the next statement of the configure() in progress
ConfigureStep ==
    /\ pending.pc > 0
    /\ proc' = configureStatement(variant, proc, pending.config,
                                  pending.pc + 1)
    /\ pending' = [pending EXCEPT
                     !.pc = IF @ + 1 = ConfigureLength THEN 0 ELSE @ + 1]
    /\ UNCHANGED <<variant, out, twin, twinOut, offByCall, ops, comp, script,
                   pm>>

NextAsync ==
    \/ \E x \in Values : AsyncReading(x)
    \/ \E c \in Configs : ConfigureBegin(c)
    \/ ConfigureStep

SpecAsync == InitAsync /\ [][NextAsync]_vars

SleepTimeout == 2

DeepSleepTimeout == 4

LowBatteryThreshold == 32

CriticalBatteryThreshold == 30

Voltages == {0, 29, 31, 37}

IdleCap == DeepSleepTimeout + 1

PowerManager ==
    [mode |-> "ACTIVE", idle |-> 0, battery_voltage |-> 0,
     by |-> "constructor", op |-> "initialize", reported |-> FALSE]

isBatteryLow(m) == m.battery_voltage < LowBatteryThreshold

isBatteryCritical(m) == m.battery_voltage < CriticalBatteryThreshold

setPowerMode(m, mode, by) ==
    IF mode = m.mode THEN m ELSE [m EXCEPT !.mode = mode, !.by = by]

shouldEnterLowPower(m) == m.idle > SleepTimeout

optimizePowerConsumption(m) ==
    IF ~shouldEnterLowPower(m) THEN m
    ELSE IF m.mode = "ACTIVE" THEN setPowerMode(m, "LOW_POWER", "timeout")
    ELSE IF m.mode = "LOW_POWER" /\ m.idle > DeepSleepTimeout
         THEN setPowerMode(m, "DEEP_SLEEP", "timeout")
    ELSE m

\* with a critical battery the ESP32 build enters deep sleep, from which
\* the CPU resets and the manager is constructed and initialized anew
PowerManager_process(v, m) ==
    IF isBatteryCritical(m)
    THEN IF v = "fixed" THEN [PowerManager EXCEPT !.by = "deepSleep"]
         ELSE setPowerMode(m, "DEEP_SLEEP", "battery")
    ELSE IF isBatteryLow(m) THEN setPowerMode(m, "LOW_POWER", "battery")
    ELSE optimizePowerConsumption(m)

PowerManager_wakeUp(m) ==
    [(IF m.mode \in {"SLEEP", "DEEP_SLEEP"}
      THEN setPowerMode(m, "ACTIVE", "wakeUp") ELSE m) EXCEPT !.idle = 0]

InitPower ==
    /\ variant \in Variants
    /\ Idle
    /\ comp = NoComp
    /\ script = NoScript
    /\ pending = NoPending
    /\ pm = PowerManager

PowerStep(m, op) ==
    /\ pm' = [m EXCEPT !.op = op]
    /\ UNCHANGED <<variant, proc, out, twin, twinOut, offByCall, ops, comp,
                   script, pending>>

\* time passes
PowerTick ==
    /\ pm.mode # "none"
    /\ PowerStep([pm EXCEPT !.idle = IF @ < IdleCap THEN @ + 1 ELSE @], "tick")

PowerProcess ==
    /\ pm.mode # "none"
    /\ PowerStep(PowerManager_process(variant, pm), "process")

PowerRecordActivity ==
    /\ pm.mode # "none"
    /\ variant = "fixed"
    /\ PowerStep([pm EXCEPT !.idle = 0], "recordActivity")

PowerWakeUp ==
    /\ pm.mode # "none"
    /\ PowerStep(PowerManager_wakeUp(pm), "wakeUp")

PowerUpdateBattery(voltage) ==
    /\ pm.mode # "none"
    /\ PowerStep([pm EXCEPT !.battery_voltage = voltage, !.reported = TRUE],
                 "updateBatteryVoltage")

NextPower ==
    \/ PowerTick
    \/ PowerProcess
    \/ PowerRecordActivity
    \/ PowerWakeUp
    \/ \E voltage \in Voltages : PowerUpdateBattery(voltage)

\* time goes on and the main loop calls process() on every pass
SpecPower ==
    InitPower /\ [][NextPower]_vars /\ WF_vars(PowerTick) /\ WF_vars(PowerProcess)

\* the battery is neither low nor critical, the manager went to LOW_POWER
\* for lack of activity, and activity has just been recorded
ActivityInLowPower ==
    /\ pm.mode = "LOW_POWER"
    /\ pm.by = "timeout"
    /\ pm.op \in {"recordActivity", "wakeUp"}
    /\ ~isBatteryLow(pm)

(***************************************************************************)
(* C16: with a healthy battery, after the manager has gone from ACTIVE to  *)
(* LOW_POWER because no activity was recorded for longer than the sleep    *)
(* timeout, recording activity leads to a process() call that returns the  *)
(* mode to ACTIVE.                                                         *)
(***************************************************************************)
ActivityWakesFromLowPower ==
    ActivityInLowPower ~> (pm.mode = "ACTIVE" \/ isBatteryLow(pm))

\* this step is a process() call that enters deep sleep because of the
\* battery: the desktop build stays in DEEP_SLEEP, the ESP32 build comes
\* back from it through a reset, after which no voltage has been reported
EntersBatteryDeepSleep ==
    /\ pm'.op = "process"
    /\ \/ pm'.by = "deepSleep" /\ ~pm'.reported
       \/ pm'.mode = "DEEP_SLEEP" /\ pm'.by = "battery" /\ pm.mode # "DEEP_SLEEP"

(***************************************************************************)
(* C27: with battery monitoring enabled, process() enters deep sleep for   *)
(* battery reasons only when updateBatteryVoltage has reported a voltage   *)
(* below the critical threshold, and a process() call made after           *)
(* initialize() and before any updateBatteryVoltage call leaves the mode   *)
(* ACTIVE.                                                                 *)
(***************************************************************************)
BatterySleepOnlyAfterReport ==
    [][/\ EntersBatteryDeepSleep =>
              pm.reported /\ pm.battery_voltage < CriticalBatteryThreshold
       /\ (pm'.op = "process" /\ ~pm.reported) =>
              pm'.mode = "ACTIVE" /\ pm'.by # "deepSleep"]_vars

(***************************************************************************)
(* The quality score on its own (specification SpecQuality): the           *)
(* signal-to-noise statement of processReading and calculateSignalQuality  *)
(* applied to a filtered value, a noise estimate, an outlier flag and a    *)
(* trend confidence.                                                       *)
(***************************************************************************)
QualityFiltered == {0 - FromInt(1), 0, 1, 2, FromInt(1), FromInt(4)}

QualityNoise == {0, 1, 500, FromInt(10)}

QualityConfidence == {0, ConfidenceGate - 1, ConfidenceGate, One}

\* the analysis as processReading fills it from the signal-to-noise
\* statement on
Scored(v, filtered_value, noise, is_outlier, confidence) ==
    LET snr     == IF v = "deque"
                   THEN D_signalToNoiseRatio(filtered_value, noise)
                   ELSE A_signalToNoiseRatio(filtered_value, noise)
        partial == [NoAnalysis EXCEPT !.filtered_value = filtered_value,
                                      !.noise_level = noise,
                                      !.signal_to_noise_ratio = snr,
                                      !.is_outlier = is_outlier,
                                      !.trend_confidence = confidence]
    IN  [partial EXCEPT !.quality_score =
            IF v = "deque" THEN D_calculateSignalQuality(partial)
            ELSE A_calculateSignalQuality(partial)]

InitQuality ==
    /\ variant \in Variants
    /\ Idle
    /\ script = NoScript
    /\ pending = NoPending
    /\ pm = NoPower
    /\ comp = [kind |-> "quality", scored |-> FALSE, analysis |-> NoAnalysis]

QualityCall(filtered_value, noise, is_outlier, confidence) ==
    /\ comp.kind = "quality"
    /\ comp' = [comp EXCEPT !.scored = TRUE,
                            !.analysis = Scored(variant, filtered_value, noise,
                                                is_outlier, confidence)]
    /\ UNCHANGED <<variant, proc, out, twin, twinOut, offByCall, ops, script,
                   pending, pm>>

NextQuality ==
    \E f \in QualityFiltered, n \in QualityNoise, o \in BOOLEAN,
       c \in QualityConfidence : QualityCall(f, n, o, c)

SpecQuality == InitQuality /\ [][NextQuality]_vars

\* the ratio of a filtered value above `least`, 0 for any other
RatioAbove(least, a) ==
    IF a.filtered_value > least
    THEN FDiv(a.filtered_value, FMax(a.noise_level, SnrFloor))
    ELSE 0

\* 100 less the three deductions, kept within 0..100
QualityFor(snr, a) ==
    LET q == 100 - (IF snr < FromInt(1) THEN 30
                    ELSE IF snr < FromInt(2) THEN 15 ELSE 0)
                 - (IF a.is_outlier THEN 20 ELSE 0)
                 - (IF a.trend_confidence < ConfidenceGate THEN 10 ELSE 0)
    IN  IF q < 0 THEN 0 ELSE IF q > 100 THEN 100 ELSE q

QualityFollows(least) ==
    (comp.kind = "quality" /\ comp.scored) =>
        /\ comp.analysis.signal_to_noise_ratio = RatioAbove(least, comp.analysis)
        /\ comp.analysis.quality_score =
               QualityFor(RatioAbove(least, comp.analysis), comp.analysis)

(***************************************************************************)
(* C20 as stated: quality_score is 100 less 30 for a signal-to-noise ratio *)
(* below 1, else 15 for one below 2, less 20 for an outlier, less 10 for a *)
(* trend confidence below 0.5, kept within 0..100 and never wrapped; the   *)
(* ratio is filtered / max(noise, 0.001) for a positive filtered value and *)
(* 0 otherwise.                                                            *)
(***************************************************************************)
QualityFromPositiveSignal == QualityFollows(0)

(***************************************************************************)
(* C20 as amended: the same, the ratio being 0 up to a filtered value of   *)
(* 0 in the deque build and of 0.001 in the fixed-array build.             *)
(***************************************************************************)
QualityFromSignalAboveGuard ==
    QualityFollows(IF variant = "deque" THEN 0 ELSE SnrFloor)

\* the fixed-array build scored a filtered value of 0.001 with every
\* deduction
FaintSignalScored ==
    /\ comp.kind = "quality"
    /\ comp.scored
    /\ variant = "fixed"
    /\ comp.analysis.filtered_value = SnrFloor
    /\ comp.analysis.noise_level = 0
    /\ comp.analysis.is_outlier
    /\ comp.analysis.quality_score = 40

(***************************************************************************)
(* MovingAverageFilter with a window of 0 or 1 (specification SpecNarrow), *)
(* computed in single precision: sum_ is a float, the inputs are the       *)
(* floats nearest to the fixed-point values.                               *)
(*   comp.input  the value given to the last call                          *)
(*   comp.out    what the last call returned                               *)
(*   comp.fault  the last call did not return                              *)
(***************************************************************************)
NarrowWindows == {0, 1}

\* lux values from 0 to 100000
NarrowValues == {0, 13, FromInt(1), FromInt(4), FromInt(100000)}

MaxNarrowCalls == 4

\* a quotient with divisor 0: NaN or an infinity
NonFinite == [neg |-> FALSE, m |-> 0, e |-> 0, finite |-> FALSE]

\* deque build: push_back, sum_ += input, pop_front above the window,
\* sum_ / buffer_.size()
D_MovingAverageFilter_process_float(f, input) ==
    LET b1   == Append(f.buffer_, input)
        s1   == F32Add(f.sum_, F32FromFixed(input))
        over == Len(b1) > f.window_size_
        b2   == IF over THEN Tail(b1) ELSE b1
        s2   == IF over THEN F32Sub(s1, F32FromFixed(Head(b1))) ELSE s1
    IN  [f     |-> [f EXCEPT !.buffer_ = b2, !.sum_ = s2],
         out   |-> IF Len(b2) = 0 THEN NonFinite
                   ELSE F32Div(s2, F32FromNat(Len(b2))),
         fault |-> FALSE]

\* what (buffer_index_ + 1) % window_size_ can do: a window of 0 makes it a
\* division by zero, which traps or leaves some index
ModuloOutcomes(window_size) ==
    IF window_size = 0 THEN {"trap", "index 0"} ELSE {"defined"}

\* fixed-array build
A_MovingAverageFilter_process_float(f, input, outcome) ==
    LET s0 == IF f.buffer_count_ >= f.window_size_
              THEN F32Sub(f.sum_, F32FromFixed(f.buffer_[f.buffer_index_ + 1]))
              ELSE f.sum_
        b1 == [f.buffer_ EXCEPT ![f.buffer_index_ + 1] = input]
        s1 == F32Add(s0, F32FromFixed(input))
        i1 == IF outcome = "defined"
              THEN (f.buffer_index_ + 1) % f.window_size_ ELSE 0
        c1 == IF f.buffer_count_ < f.window_size_ THEN f.buffer_count_ + 1
              ELSE f.buffer_count_
    IN  [f     |-> [f EXCEPT !.buffer_ = b1, !.sum_ = s1,
                             !.buffer_index_ = i1, !.buffer_count_ = c1],
         out   |-> IF outcome = "trap" \/ c1 = 0 THEN NonFinite
                   ELSE F32Div(s1, F32FromNat(c1)),
         fault |-> outcome = "trap"]

NarrowNew(v, W) ==
    [(IF v = "deque" THEN D_MovingAverageFilter(W)
      ELSE A_MovingAverageFilter(W)) EXCEPT !.sum_ = F32Zero]

InitNarrow ==
    /\ variant \in Variants
    /\ Idle
    /\ script = NoScript
    /\ pending = NoPending
    /\ pm = NoPower
    /\ \E W \in NarrowWindows :
           comp = [kind |-> "narrow", W |-> W, f |-> NarrowNew(variant, W),
                   calls |-> 0, input |-> 0, out |-> F32Zero, fault |-> FALSE]

NarrowCall(x, outcome) ==
    /\ comp.kind = "narrow"
    /\ ~comp.fault
    /\ comp.calls < MaxNarrowCalls
    /\ outcome \in ModuloOutcomes(comp.W)
    /\ LET r == IF variant = "deque"
                THEN D_MovingAverageFilter_process_float(comp.f, x)
                ELSE A_MovingAverageFilter_process_float(comp.f, x, outcome)
       IN  comp' = [comp EXCEPT !.f = r.f, !.out = r.out, !.fault = r.fault,
                                !.input = x, !.calls = @ + 1]
    /\ UNCHANGED <<variant, proc, out, twin, twinOut, offByCall, ops, script,
                   pending, pm>>

NextNarrow ==
    \E x \in NarrowValues, outcome \in {"defined", "trap", "index 0"} :
        NarrowCall(x, outcome)

SpecNarrow == InitNarrow /\ [][NextNarrow]_vars

(***************************************************************************)
(* C23: a moving-average filter constructed with window 0 or 1 returns     *)
(* from every process(x) call, and returns x.                              *)
(***************************************************************************)
NarrowWindowPassesThrough ==
    (comp.kind = "narrow" /\ comp.calls > 0) =>
        /\ ~comp.fault
        /\ comp.out = F32FromFixed(comp.input)

(***************************************************************************)
(* AdaptiveFilter on its own: constructed with any rate and noise floor,   *)
(* then process, updateParameters and reset in any order                   *)
(***************************************************************************)
AdaptationRates == {0 - FromInt(5), 100, FromInt(5)}

NoiseFloors == {0, 10}

AdaptiveValues == {0, FromInt(4)}

MaxAdaptiveCalls == 3

MaxAdaptiveUpdates == 1

InitAdaptive ==
    /\ variant \in Variants
    /\ Idle
    /\ script = NoScript
    /\ pending = NoPending
    /\ pm = NoPower
    /\ \E rate \in AdaptationRates, floor \in NoiseFloors :
           comp = [kind |-> "adaptive", f |-> AdaptiveFilter(rate, floor),
                   calls |-> 0, updates |-> 0, op |-> "construct", out |-> 0]

AdaptiveStep(f, op, result) ==
    /\ comp.kind = "adaptive"
    /\ comp' = [comp EXCEPT !.f = f, !.op = op, !.out = result,
                            !.calls = IF op = "process" THEN @ + 1 ELSE @,
                            !.updates = IF op = "updateParameters"
                                        THEN @ + 1 ELSE @]
    /\ UNCHANGED <<variant, proc, out, twin, twinOut, offByCall, ops, script,
                   pending, pm>>

AdaptiveCall(x) ==
    /\ comp.kind = "adaptive"
    /\ comp.calls < MaxAdaptiveCalls
    /\ LET r == AdaptiveFilter_process(comp.f, x)
       IN  AdaptiveStep(r.f, "process", r.out)

AdaptiveUpdate(rate, floor) ==
    /\ comp.kind = "adaptive"
    /\ comp.updates < MaxAdaptiveUpdates
    /\ AdaptiveStep(AdaptiveFilter_updateParameters(comp.f, rate, floor),
                    "updateParameters", comp.out)

AdaptiveReset ==
    /\ comp.kind = "adaptive"
    /\ comp.op # "reset"
    /\ AdaptiveStep(AdaptiveFilter_reset(comp.f), "reset", comp.out)

NextAdaptive ==
    \/ \E x \in AdaptiveValues : AdaptiveCall(x)
    \/ \E rate \in AdaptationRates, floor \in NoiseFloors :
           AdaptiveUpdate(rate, floor)
    \/ AdaptiveReset

SpecAdaptive == InitAdaptive /\ [][NextAdaptive]_vars

(***************************************************************************)
(* C24: whatever rate and noise floor the adaptive filter was given, its   *)
(* coefficient lies in [0.1, 0.9] after every process, updateParameters    *)
(* and reset call, and after reset() the coefficient is 0.5 and the        *)
(* previous output and the error variance are 0.                           *)
(***************************************************************************)
CoefficientStaysClamped ==
    comp.kind = "adaptive" =>
        /\ CoefficientMin <= comp.f.filter_coefficient_
        /\ comp.f.filter_coefficient_ <= CoefficientMax
        /\ comp.op = "reset" =>
               /\ comp.f.filter_coefficient_ = CoefficientInitial
               /\ comp.f.prev_output_ = 0
               /\ comp.f.error_variance_ = 0

(***************************************************************************)
(* The outlier test while the recent window fills: samples arrive after    *)
(* construction, and after a configure() that empties the window again     *)
(***************************************************************************)
OutlierThresholds == {1500, 2000}

WindowConfigs ==
    {[CfgRaw EXCEPT !.outlier_threshold = th] : th \in OutlierThresholds}

WindowValues == {0, 7, FromInt(4)}

MaxWindowReadings == 5

MaxWindowControls == 1

InitWindow ==
    /\ variant \in Variants
    /\ pending = NoPending
    /\ pm = NoPower
    /\ comp = NoComp
    /\ twin = NoTwin
    /\ twinOut = NoAnalysis
    /\ offByCall = {}
    /\ ops = NoOps
    /\ out = [op |-> "construct", input |-> 0, analysis |-> NoAnalysis,
              applied |-> {}]
    /\ script = [name |-> "window", since |-> 0]
    /\ \E c \in WindowConfigs : proc = Construct(variant, c)

WindowReading(x) ==
    /\ script.name = "window"
    /\ ops.readings < MaxWindowReadings
    /\ LET r == processReading(variant, proc, [lux_value |-> x])
       IN  /\ proc' = r.p
           /\ out' = [op |-> "processReading", input |-> x,
                      analysis |-> r.analysis, applied |-> r.applied]
    /\ ops' = [ops EXCEPT !.readings = @ + 1]
    /\ script' = [script EXCEPT !.since = @ + 1]
    /\ UNCHANGED <<variant, twin, twinOut, offByCall, comp, pending, pm>>

WindowConfigure(c) ==
    /\ script.name = "window"
    /\ ops.controls < MaxWindowControls
    /\ proc' = configure(variant, proc, c)
    /\ out' = [op |-> "configure", input |-> 0, analysis |-> NoAnalysis,
               applied |-> {}]
    /\ ops' = [ops EXCEPT !.controls = @ + 1]
    /\ script' = [script EXCEPT !.since = 0]
    /\ UNCHANGED <<variant, twin, twinOut, offByCall, comp, pending, pm>>

NextWindow ==
    \/ \E x \in WindowValues : WindowReading(x)
    \/ \E c \in WindowConfigs : WindowConfigure(c)

SpecWindow == InitWindow /\ [][NextWindow]_vars

\* (n - 1)^2 <= T^2 * n, with T in thousandths
NoRoomForOutlier(n, T) == (n - 1) * (n - 1) * Scale * Scale <= T * T * n

(***************************************************************************)
(* C25: processReading does not flag a sample while the recent window,     *)
(* the sample included, holds n values with (n-1)^2 <= T^2 * n for the     *)
(* outlier threshold T; with T = 2.0 none of the first five samples after  *)
(* construction or configure() is flagged.                                 *)
(***************************************************************************)
SmallWindowNeverFlags ==
    (script.name = "window" /\ out.op = "processReading") =>
        /\ NoRoomForOutlier(RecentCount(variant, proc),
                            proc.config_.outlier_threshold)
              => ~out.analysis.is_outlier
        /\ (proc.config_.outlier_threshold = FromInt(2) /\ script.since <= 5)
              => ~out.analysis.is_outlier

(***************************************************************************)
(* ADCLightSensor: continuous sampling across enterLowPower() and wakeUp() *)
(* (specification SpecSensor).  Whether the sample period has elapsed when *)
(* process() runs is an input of process(); the readings themselves are    *)
(* left out, only who received how many is kept.                           *)
(*   comp.valid      the configuration passes the tests of initialize()    *)
(*   comp.received   the callback process() invoked last                   *)
(*   comp.delivered  the number of readings delivered                      *)
(*   comp.lowPower   is_sampling_ and data_callback_ as they were when     *)
(*                   enterLowPower() was called last                       *)
(***************************************************************************)
Callbacks == {"onReading", "onOther"}

MaxDelivered == 2

ADCLightSensor(valid) ==
    [kind |-> "sensor", valid |-> valid, is_initialized_ |-> FALSE,
     is_sampling_ |-> FALSE, data_callback_ |-> "nullptr",
     was_sampling_before_sleep_ |-> FALSE, op |-> "construct",
     received |-> "nullptr", delivered |-> 0,
     lowPower |-> [sampling |-> FALSE, callback |-> "nullptr"]]

ADCLightSensor_initialize(s) ==
    IF s.is_initialized_ \/ ~s.valid THEN s
    ELSE [s EXCEPT !.is_initialized_ = TRUE]

ADCLightSensor_startSampling(s, callback) ==
    IF ~s.is_initialized_ \/ callback = "nullptr" THEN s
    ELSE [s EXCEPT !.data_callback_ = callback, !.is_sampling_ = TRUE]

ADCLightSensor_stopSampling(s) ==
    [s EXCEPT !.is_sampling_ = FALSE, !.data_callback_ = "nullptr"]

ADCLightSensor_enterLowPower(s) ==
    LET s1 == [s EXCEPT !.was_sampling_before_sleep_ = s.is_sampling_]
    IN  IF s1.is_sampling_ THEN ADCLightSensor_stopSampling(s1) ELSE s1

ADCLightSensor_wakeUp(s) ==
    IF s.was_sampling_before_sleep_ /\ s.data_callback_ # "nullptr"
    THEN [s EXCEPT !.is_sampling_ = TRUE]
    ELSE s

ADCLightSensor_process(s, due) ==
    IF ~s.is_sampling_ \/ s.data_callback_ = "nullptr" THEN s
    ELSE IF due
         THEN [s EXCEPT !.received = s.data_callback_, !.delivered = @ + 1]
         ELSE s

InitSensor ==
    /\ variant \in Variants
    /\ Idle
    /\ script = NoScript
    /\ pending = NoPending
    /\ pm = NoPower
    /\ \E valid \in BOOLEAN : comp = ADCLightSensor(valid)

SensorStep(s, op) ==
    /\ comp' = [s EXCEPT !.op = op]
    /\ UNCHANGED <<variant, proc, out, twin, twinOut, offByCall, ops, script,
                   pending, pm>>

SensorInitialize ==
    /\ comp.kind = "sensor"
    /\ SensorStep(ADCLightSensor_initialize(comp), "initialize")

SensorStartSampling(callback) ==
    /\ comp.kind = "sensor"
    /\ SensorStep(ADCLightSensor_startSampling(comp, callback), "startSampling")

SensorStopSampling ==
    /\ comp.kind = "sensor"
    /\ SensorStep(ADCLightSensor_stopSampling(comp), "stopSampling")

SensorEnterLowPower ==
    /\ comp.kind = "sensor"
    /\ SensorStep([ADCLightSensor_enterLowPower(comp) EXCEPT
                      !.lowPower = [sampling |-> comp.is_sampling_,
                                    callback |-> comp.data_callback_]],
                  "enterLowPower")

SensorWakeUp ==
    /\ comp.kind = "sensor"
    /\ SensorStep(ADCLightSensor_wakeUp(comp), "wakeUp")

SensorProcess(due) ==
    /\ comp.kind = "sensor"
    /\ comp.delivered < MaxDelivered
    /\ SensorStep(ADCLightSensor_process(comp, due), "process")

NextSensor ==
    \/ SensorInitialize
    \/ \E callback \in Callbacks \cup {"nullptr"} : SensorStartSampling(callback)
    \/ SensorStopSampling
    \/ SensorEnterLowPower
    \/ SensorWakeUp
    \/ \E due \in BOOLEAN : SensorProcess(due)

SpecSensor == InitSensor /\ [][NextSensor]_vars

\* wakeUp() is called on a sensor that enterLowPower() has just been called on
WakeUpFromLowPower ==
    /\ comp.kind = "sensor"
    /\ comp.op = "enterLowPower"
    /\ comp'.op = "wakeUp"

(***************************************************************************)
(* C28: if continuous sampling was active when enterLowPower() was called, *)
(* then after wakeUp() sampling is active again with the callback that     *)
(* was registered, so that process() delivers readings to it; if sampling  *)
(* was not active, wakeUp() does not start it.                             *)
(***************************************************************************)
SamplingResumesAfterWakeUp ==
    [][WakeUpFromLowPower =>
          IF comp.lowPower.sampling
          THEN /\ comp'.is_sampling_
               /\ comp'.data_callback_ = comp.lowPower.callback
          ELSE ~comp'.is_sampling_]_vars

(***************************************************************************)
(* DataLogger (specification SpecLogger).  data_logger.cpp is the desktop  *)
(* build: a std::queue guarded by buffer_mutex_, which logReading takes    *)
(* for the test and the push and processBuffer takes again afterwards, so  *)
(* that another thread can run between the two.  part_006 is the ESP32     *)
(* build: a ring of MAX_QUEUE_SIZE readings, no mutex, every call run to   *)
(* completion from the one loop.  They go with the deque and the           *)
(* fixed-array variant.  A storage is attached throughout.  Readings are   *)
(* numbered in the order they are handed to logReading; a handler that     *)
(* writes to the storage is given the number of writes that succeed before *)
(* the storage starts to fail.                                             *)
(*   comp.buffer    buffer_ (desktop), or the ring with its indices        *)
(*   comp.stored    the readings storage_->write returned true for         *)
(*   comp.accepted  the readings logReading accepted, in that order        *)
(*   comp.pc        where each caller of logReading stands                 *)
(***************************************************************************)
MAX_QUEUE_SIZE == 2

LoggerConfigs ==
    {[buffer_size |-> b, flush_threshold |-> t] : b \in 1..2, t \in 1..2}

\* ConfigManager::validateLoggerConfig, the two tests on the buffer
validateLoggerConfig(c) ==
    /\ c.buffer_size # 0
    /\ ~(c.flush_threshold > c.buffer_size)

MaxLogged == 3

Callers == {"callback", "loop"}

EmptyRing ==
    [buffer_ |-> [i \in 0..(MAX_QUEUE_SIZE - 1) |-> 0], buffer_head_ |-> 0,
     buffer_tail_ |-> 0, buffer_count_ |-> 0]

DataLogger(v, config) ==
    [kind |-> "logger", config_ |-> config,
     buffer |-> IF v = "deque" THEN <<>> ELSE EmptyRing,
     stored |-> <<>>, accepted |-> <<>>, buffer_overflow_count |-> 0,
     filtered_readings |-> 0, next |-> 1,
     pc |-> [c \in Callers |-> "idle"], op |-> "construct"]

enqueue(r, reading) ==
    IF r.buffer_count_ >= MAX_QUEUE_SIZE THEN [ok |-> FALSE, r |-> r]
    ELSE [ok |-> TRUE,
          r |-> [r EXCEPT !.buffer_[r.buffer_tail_] = reading,
                          !.buffer_tail_ = (@ + 1) % MAX_QUEUE_SIZE,
                          !.buffer_count_ = @ + 1]]

dequeue(r) ==
    IF r.buffer_count_ = 0 THEN [ok |-> FALSE, r |-> r, reading |-> 0]
    ELSE [ok |-> TRUE, reading |-> r.buffer_[r.buffer_head_],
          r |-> [r EXCEPT !.buffer_head_ = (@ + 1) % MAX_QUEUE_SIZE,
                          !.buffer_count_ = @ - 1]]

\* the readings waiting in the buffer, oldest first
RECURSIVE RingContents(_)
RingContents(r) ==
    IF r.buffer_count_ = 0 THEN <<>>
    ELSE <<dequeue(r).reading>> \o RingContents(dequeue(r).r)

Pending(v, l) == IF v = "deque" THEN l.buffer ELSE RingContents(l.buffer)

\* desktop flush(): the front is written and popped only if the write
\* succeeded; the loop stops at the first failure
D_DataLogger_flush(l, good) ==
    LET n == FMin(good, Len(l.buffer))
    IN  [l EXCEPT !.stored = @ \o SubSeq(l.buffer, 1, n),
                  !.buffer = SubSeq(l.buffer, n + 1, Len(l.buffer))]

\* desktop processBuffer(): at the threshold every reading is written and
\* popped, whatever write() returned
D_DataLogger_processBuffer(l, good) ==
    IF Len(l.buffer) >= l.config_.flush_threshold
    THEN [l EXCEPT !.stored = @ \o SubSeq(l.buffer, 1, FMin(good, Len(l.buffer))),
                   !.buffer = <<>>]
    ELSE l

\* ESP32 flush(): the reading is dequeued before it is written, and the
\* loop returns at the first failure
RECURSIVE A_DataLogger_flush(_, _)
A_DataLogger_flush(l, good) ==
    LET d == dequeue(l.buffer)
    IN  IF ~d.ok THEN l
        ELSE IF good = 0 THEN [l EXCEPT !.buffer = d.r]
        ELSE A_DataLogger_flush([l EXCEPT !.buffer = d.r,
                                          !.stored = Append(@, d.reading)],
                                good - 1)

A_DataLogger_processBuffer(l, good) ==
    IF l.buffer.buffer_count_ >= l.config_.flush_threshold
    THEN A_DataLogger_flush(l, good)
    ELSE l

\* logReading up to the release of the mutex (desktop) or to the return of
\* enqueue (ESP32); went tells whether the reading was put in the buffer
DataLogger_logReading_push(v, l, passes) ==
    LET l1 == [l EXCEPT !.next = @ + 1]
    IN  IF ~passes
        THEN [l |-> [l1 EXCEPT !.filtered_readings = @ + 1], went |-> FALSE]
        ELSE IF v = "deque"
        THEN IF Len(l.buffer) >= l.config_.buffer_size
             THEN [l |-> [l1 EXCEPT !.buffer_overflow_count = @ + 1],
                   went |-> FALSE]
             ELSE [l |-> [l1 EXCEPT !.buffer = Append(@, l.next),
                                    !.accepted = Append(@, l.next)],
                   went |-> TRUE]
        ELSE IF ~enqueue(l.buffer, l.next).ok
             THEN [l |-> [l1 EXCEPT !.buffer_overflow_count = @ + 1],
                   went |-> FALSE]
             ELSE [l |-> [l1 EXCEPT !.buffer = enqueue(l.buffer, l.next).r,
                                    !.accepted = Append(@, l.next)],
                   went |-> TRUE]

InitLogger ==
    /\ variant \in Variants
    /\ Idle
    /\ script = NoScript
    /\ pending = NoPending
    /\ pm = NoPower
    /\ \E c \in LoggerConfigs :
          /\ validateLoggerConfig(c)
          /\ comp = DataLogger(variant, c)

LoggerStep(l, op) ==
    /\ comp' = [l EXCEPT !.op = op]
    /\ UNCHANGED <<variant, proc, out, twin, twinOut, offByCall, ops, script,
                   pending, pm>>

\* ESP32 build: logReading(reading) from start to end
LoggerLogReading(passes, good) ==
    /\ comp.kind = "logger"
    /\ variant = "fixed"
    /\ comp.next <= MaxLogged
    /\ LET r == DataLogger_logReading_push(variant, comp, passes)
       IN  LoggerStep(IF r.went THEN A_DataLogger_processBuffer(r.l, good)
                      ELSE r.l, "logReading")

\* desktop build: a caller runs logReading up to the release of the mutex
LoggerPush(caller, passes) ==
    /\ comp.kind = "logger"
    /\ variant = "deque"
    /\ comp.next <= MaxLogged
    /\ comp.pc[caller] = "idle"
    /\ LET r == DataLogger_logReading_push(variant, comp, passes)
       IN  LoggerStep([r.l EXCEPT !.pc[caller] =
                                      IF r.went THEN "pushed" ELSE "idle"],
                      "logReading")

\* desktop build: the caller goes on to processBuffer() and returns true
LoggerProcessBuffer(caller, good) ==
    /\ comp.kind = "logger"
    /\ variant = "deque"
    /\ comp.pc[caller] = "pushed"
    /\ LoggerStep([D_DataLogger_processBuffer(comp, good) EXCEPT
                      !.pc[caller] = "idle"], "processBuffer")

\* the processBuffer() call at the end of process(), from the main loop
LoggerProcess(good) ==
    /\ comp.kind = "logger"
    /\ comp.pc["loop"] = "idle"
    /\ LoggerStep(IF variant = "deque"
                  THEN D_DataLogger_processBuffer(comp, good)
                  ELSE A_DataLogger_processBuffer(comp, good), "process")

LoggerFlush(good) ==
    /\ comp.kind = "logger"
    /\ comp.pc["loop"] = "idle"
    /\ LoggerStep(IF variant = "deque" THEN D_DataLogger_flush(comp, good)
                  ELSE A_DataLogger_flush(comp, good), "flush")

NextLogger ==
    \/ \E passes \in BOOLEAN, good \in 0..MAX_QUEUE_SIZE :
           LoggerLogReading(passes, good)
    \/ \E caller \in Callers, passes \in BOOLEAN : LoggerPush(caller, passes)
    \/ \E caller \in Callers, good \in 0..MAX_QUEUE_SIZE :
           LoggerProcessBuffer(caller, good)
    \/ \E good \in 0..MAX_QUEUE_SIZE : LoggerProcess(good)
    \/ \E good \in 0..MAX_QUEUE_SIZE : LoggerFlush(good)

SpecLogger == InitLogger /\ [][NextLogger]_vars

(***************************************************************************)
(* C29: every reading logReading accepted is either written to the storage *)
(* or still pending, once and in the order of acceptance: the accepted     *)
(* readings are the stored ones followed by the buffered ones, so that a   *)
(* reading leaves the buffer only when its write succeeded.                *)
(***************************************************************************)
NoAcceptedReadingLost ==
    comp.kind = "logger" =>
        comp.accepted = comp.stored \o Pending(variant, comp)

(***************************************************************************)
(* C30: with a storage attached and a configuration that passes            *)
(* validateLoggerConfig, logReading never rejects a reading for buffer     *)
(* overflow, however the calls from the sampling callback and from the     *)
(* main loop interleave: buffer_overflow_count stays 0.                    *)
(***************************************************************************)
NoBufferOverflow ==
    (comp.kind = "logger" /\ validateLoggerConfig(comp.config_)) =>
        comp.buffer_overflow_count = 0

====
